---- MODULE Spec2Model ----
(***************************************************************************)
(* Model of mindbridge's connection manager                                *)
(* (src/src/mindbridge/database/connection.py): the DatabaseEngine class   *)
(* with its lazily built pooled engine and session factory, the scoped     *)
(* session of get_session, close(), and the process-wide instance behind   *)
(* get_async_engine / close_database_engine; and of the health checker     *)
(* built on it (src/src/mindbridge/database/health.py): the three probes   *)
(* of DatabaseHealthChecker and comprehensive_health_check; of the         *)
(* validators of the entities (src/src/mindbridge/database/models.py);     *)
(* and of the readiness endpoint (src/src/mindbridge/api/health.py).       *)
(*                                                                         *)
(* Scheduling is asyncio's: one event loop, cooperative tasks.  A task     *)
(* runs without interruption up to its next `await` that really suspends,  *)
(* so every synchronous function and property is one action, and every    *)
(* suspending await (the caller's body inside the scope, session.rollback, *)
(* the session's close, engine.dispose) separates two actions.             *)
(*                                                                         *)
(* Objects are numbered in order of construction; None is 0.  Strings of   *)
(* the environment are sequences of one-character strings, so that         *)
(* int(), str.lower() and truthiness are computed, not assumed.            *)
(***************************************************************************)
EXTENDS Integers, Sequences, FiniteSets

(* ---------- bounds of the model ---------- *)
NumTasks == 2
MaxManagers == 2
MaxEngines == 2
MaxSessions == 2
MaxDisposals == 2

(* ---------- program constants ---------- *)
DefaultPoolSize == 10
DefaultMaxOverflow == 20
DefaultPoolTimeout == 30
DefaultPoolRecycle == 3600

None == 0
Tasks == 1..NumTasks

\* The text "true" / "false", the defaults of the boolean options.
StrTrue == <<"t", "r", "u", "e">>
StrFalse == <<"f", "a", "l", "s", "e">>

(* ---------- the environment a call of get_async_engine can find ---------- *)
\* os.environ as a mapping from the keys that are set to their text.  It is
\* set from outside the program, so it is an input of each call that reads it.
EnvNothing == [k \in {} |-> <<>>]
EnvEmptyUrl == [k \in {"DATABASE_URL"} |-> <<>>]
EnvUrlA == [k \in {"DATABASE_URL"} |-> <<"a">>]
EnvUrlB == [k \in {"DATABASE_URL", "DB_POOL_SIZE", "DB_ECHO"} |->
              CASE k = "DATABASE_URL" -> <<"b">>
                [] k = "DB_POOL_SIZE" -> <<"1", "5">>
                [] OTHER -> <<"T", "r", "u", "e">>]
EnvBadPool == [k \in {"DATABASE_URL", "DB_POOL_SIZE"} |->
              IF k = "DATABASE_URL" THEN <<"a">> ELSE <<"1", "x">>]
Envs == {EnvNothing, EnvEmptyUrl, EnvUrlA, EnvUrlB, EnvBadPool}

VARIABLES
  database_engine,  \* the module global _database_engine: None or a manager
  managers,         \* the DatabaseEngine objects constructed so far
  engines,          \* the pooled engines constructed so far (create_async_engine)
  factories,        \* the session factories constructed so far (async_sessionmaker)
  sessions,         \* the sessions handed out so far
  task,             \* each task: where it is and what it holds
  last,             \* history: the call that returned last, and what it found
  hc,               \* the DatabaseHealthChecker call in progress, if any
  report,           \* history: what the last health check returned, and on what
  entity,           \* the entity (models.py) under construction and assignment
  assigned,         \* history: the last construction or assignment, what the field held, and its end
  answer            \* history: the last call of the readiness endpoint or of one of its checks

vars == <<database_engine, managers, engines, factories, sessions, task, last, hc, report, entity, assigned, answer>>

\* The variables of the connection manager.
cvars == <<database_engine, managers, engines, factories, sessions, task, last>>

\* The variables of the health checker.
hvars == <<hc, report>>

\* The variables of the entities.
evars == <<entity, assigned>>

\* The variables of the readiness endpoint.
avars == <<answer>>

(* ---------- os.getenv, int(), str.lower() ---------- *)
getenv_default(e, key, default) == IF key \in DOMAIN e THEN e[key] ELSE default

\* A test `os.getenv(key) is None`, which lets the empty text through.
getenv_is_none(e, key) == key \notin DOMAIN e

\* `not os.getenv(key)`: the key is unset (None) or its text is empty.
getenv_falsy(e, key) == key \notin DOMAIN e \/ Len(e[key]) = 0

Digits == <<"0", "1", "2", "3", "4", "5", "6", "7", "8", "9">>

IsDigit(c) == \E i \in 1..10 : Digits[i] = c

DigitValue(c) == (CHOOSE i \in 1..10 : Digits[i] = c) - 1

\* int(s) succeeds on a non-empty run of decimal digits and raises ValueError
\* on the other texts the environment is drawn from.
IntParses(s) == Len(s) > 0 /\ \A i \in 1..Len(s) : IsDigit(s[i])

RECURSIVE IntValue(_)
IntValue(s) ==
  IF Len(s) = 0 THEN 0
  ELSE 10 * IntValue(SubSeq(s, 1, Len(s) - 1)) + DigitValue(s[Len(s)])

int_default(e, key, default) ==
  IF key \in DOMAIN e THEN IntValue(e[key]) ELSE default

int_ok(e, key) == key \in DOMAIN e => IntParses(e[key])

LowerChar(c) ==
  CASE c = "T" -> "t" [] c = "R" -> "r" [] c = "U" -> "u" [] c = "E" -> "e"
    [] c = "F" -> "f" [] c = "A" -> "a" [] c = "L" -> "l" [] c = "S" -> "s"
    [] c = "G" -> "g" [] c = "I" -> "i" [] c = "H" -> "h" [] c = "B" -> "b"
    [] c = "C" -> "c" [] c = "O" -> "o" [] c = "M" -> "m" [] c = "P" -> "p"
    [] OTHER -> c

lower(s) == [i \in 1..Len(s) |-> LowerChar(s[i])]

\* `part in message`: the elements of part occur in message, one after the
\* other.
Contains(message, part) ==
  \E i \in 0..Len(message) :
    /\ i + Len(part) <= Len(message)
    /\ \A j \in 1..Len(part) : message[i + j] = part[j]

\* os.getenv(key, default).lower() == "true"
bool_env(e, key, default) == lower(getenv_default(e, key, default)) = StrTrue

(* ---------- DatabaseEngine.__init__ ---------- *)
\* The stored configuration, and both references unset.  History: `released`,
\* whether close_database_engine has unset the global while it was this object.
DatabaseEngine_init(url, pool_size, max_overflow, pool_timeout, pool_recycle, pool_pre_ping, echo) ==
  [ database_url |-> url, pool_size |-> pool_size, max_overflow |-> max_overflow,
    pool_timeout |-> pool_timeout, pool_recycle |-> pool_recycle,
    pool_pre_ping |-> pool_pre_ping, echo |-> echo,
    engine |-> None, session_factory |-> None,
    released |-> FALSE ]

Config(m) ==
  [ database_url |-> m.database_url, pool_size |-> m.pool_size,
    max_overflow |-> m.max_overflow, pool_timeout |-> m.pool_timeout,
    pool_recycle |-> m.pool_recycle, pool_pre_ping |-> m.pool_pre_ping,
    echo |-> m.echo ]


(* ---------- create_async_engine, async_sessionmaker, AsyncSession ---------- *)
\* A pooled engine built from a configuration.  History: `owner`, the manager
\* that built it; `disposals`, the number of dispose() calls made on it;
\* `dropped`, whether a close() has taken the manager's reference to it away;
\* `disposed`, whether a dispose() made on it has returned.
create_async_engine(cfg, owner) ==
  [ cfg |-> cfg, owner |-> owner, disposals |-> 0, dropped |-> FALSE,
    disposed |-> FALSE ]

\* async_sessionmaker(bind=engine, class_=AsyncSession, expire_on_commit=False)
async_sessionmaker(bind, owner) == [ bind |-> bind, owner |-> owner ]

\* factory(): a new session bound to the factory's engine.  `log` is the
\* history of what was done to it: "rollback", "close", "exit"; `outcome` is
\* how the caller's body ended; `reached` is what the caller's `async with`
\* statement saw at the end.
new_session(bind) ==
  [ bind |-> bind, outcome |-> "pending", log |-> <<>>, reached |-> "pending" ]

(* ---------- DatabaseEngine.engine ---------- *)
\* A property without `if self._engine is None`: a new engine on every read.
engine_get_always_builds(ms, es, m) ==
  [ managers |-> [ms EXCEPT ![m].engine = Len(es) + 1],
    engines |-> Append(es, create_async_engine(Config(ms[m]), m)),
    ret |-> Len(es) + 1 ]

\* The property: build the engine from the stored configuration when unset,
\* then return self._engine.  Result: the new heap and the value returned.
engine_get(ms, es, m) ==
  IF ms[m].engine = None
  THEN LET e == Len(es) + 1
       IN [ managers |-> [ms EXCEPT ![m].engine = e],
            engines |-> Append(es, create_async_engine(Config(ms[m]), m)),
            ret |-> e ]
  ELSE [ managers |-> ms, engines |-> es, ret |-> ms[m].engine ]

(* ---------- DatabaseEngine.session_factory ---------- *)
\* A factory bound to an engine of its own (bind=create_async_engine(...))
\* instead of bind=self.engine.
session_factory_get_own_engine(ms, es, fs, m) ==
  IF ms[m].session_factory = None
  THEN [ managers |-> [ms EXCEPT ![m].session_factory = Len(fs) + 1],
         engines |-> Append(es, create_async_engine(Config(ms[m]), m)),
         factories |-> Append(fs, async_sessionmaker(Len(es) + 1, m)),
         ret |-> Len(fs) + 1 ]
  ELSE [ managers |-> ms, engines |-> es, factories |-> fs,
         ret |-> ms[m].session_factory ]

\* The property: build the factory, bound to self.engine (which may build
\* the engine), when unset, then return self._session_factory.
session_factory_get(ms, es, fs, m) ==
  IF ms[m].session_factory = None
  THEN LET r == engine_get(ms, es, m)
           f == Len(fs) + 1
       IN [ managers |-> [r.managers EXCEPT ![m].session_factory = f],
            engines |-> r.engines,
            factories |-> Append(fs, async_sessionmaker(r.ret, m)),
            ret |-> f ]
  ELSE [ managers |-> ms, engines |-> es, factories |-> fs,
         ret |-> ms[m].session_factory ]

(* ---------- get_async_engine ---------- *)
\* The branch taken with the global unset: DATABASE_URL is read and must be
\* truthy, then the options are parsed (int() raises ValueError on a
\* malformed number), then the DatabaseEngine is constructed, stored in the
\* global and returned.
configure_from_env(e, g, ms) ==
  IF getenv_falsy(e, "DATABASE_URL")
  THEN [ database_engine |-> g, managers |-> ms, ret |-> None,
         raised |-> "RuntimeError" ]
  ELSE IF ~ ( int_ok(e, "DB_POOL_SIZE") /\ int_ok(e, "DB_MAX_OVERFLOW")
              /\ int_ok(e, "DB_POOL_TIMEOUT") /\ int_ok(e, "DB_POOL_RECYCLE") )
  THEN [ database_engine |-> g, managers |-> ms, ret |-> None,
         raised |-> "ValueError" ]
  ELSE LET m == Len(ms) + 1
           obj == DatabaseEngine_init(
                    e["DATABASE_URL"],
                    int_default(e, "DB_POOL_SIZE", DefaultPoolSize),
                    int_default(e, "DB_MAX_OVERFLOW", DefaultMaxOverflow),
                    int_default(e, "DB_POOL_TIMEOUT", DefaultPoolTimeout),
                    int_default(e, "DB_POOL_RECYCLE", DefaultPoolRecycle),
                    bool_env(e, "DB_POOL_PRE_PING", StrTrue),
                    bool_env(e, "DB_ECHO", StrFalse))
       IN [ database_engine |-> m, managers |-> Append(ms, obj), ret |-> m,
            raised |-> "none" ]

\* A get_async_engine without `if _database_engine is None`.
get_async_engine_no_singleton(e, g, ms) == configure_from_env(e, g, ms)

\* `if _database_engine is None:` configure; in every case that does not
\* raise, return the global.
get_async_engine(e, g, ms) ==
  IF g = None
  THEN configure_from_env(e, g, ms)
  ELSE [ database_engine |-> g, managers |-> ms, ret |-> g, raised |-> "none" ]

(* ---------- tasks ---------- *)
\* A task is idle (between calls) or inside a call that is suspended.
\* pc: "idle"; "body" while the caller's code runs inside a get_session
\* scope; "rollback", "aexit" and "leave" on the way out of the scope;
\* "dispose" while close() awaits engine.dispose().
\* ses, exc: the session of the scope the task is in, the exception in flight.
\* closing, target, global: the manager close() runs on, the engine whose
\* dispose() it awaits, and whether close_database_engine called it.
\* Every DatabaseEngine that exists can be reached by every task (the global,
\* or a reference kept from an earlier get_async_engine), so a call names the
\* manager it is made on.
IdleTask ==
  [ pc |-> "idle", ses |-> None, exc |-> "none", closing |-> None,
    target |-> None, global |-> FALSE ]

\* Idle tasks are interchangeable: the next call is started by the first one.
CanCall(t) ==
  /\ task[t].pc = "idle"
  /\ \A u \in Tasks : task[u].pc = "idle" => t <= u

Managers == 1..Len(managers)

\* What a call that does not suspend found when it started: the global, the
\* references of the manager it ran on, and how many objects existed.
Before(m) ==
  [ database_engine |-> database_engine,
    engine |-> IF m = None THEN None ELSE managers[m].engine,
    session_factory |-> IF m = None THEN None ELSE managers[m].session_factory,
    nManagers |-> Len(managers), nEngines |-> Len(engines),
    nFactories |-> Len(factories) ]

NoSnapshot ==
  [ database_engine |-> None, engine |-> None, session_factory |-> None,
    nManagers |-> 0, nEngines |-> 0, nFactories |-> 0 ]

\* The record of a call of `op` on manager m (None for the module functions)
\* that returned `ret` or raised `raised`; e is the environment it read,
\* target the engine it called dispose() on.
Returned(op, m, ret, raised, e, target, before) ==
  [ op |-> op, mgr |-> m, ret |-> ret, raised |-> raised, env |-> e,
    target |-> target, before |-> before ]

NoCall == Returned("none", None, None, "none", EnvNothing, None, NoSnapshot)

(* ---------- the entities of models.py ---------- *)
\* Python values by their type.  A str whose characters matter (a URL, a
\* content) is the sequence of its characters; the raw string of an
\* enumeration is taken whole.  A list or tuple is written as Python
\* writes it, [x] * n + [y] * m: the sequence of its runs, each n elements
\* of one type (the type of an element is all the embedding validator
\* looks at).
Text(chars) == [type |-> "str", chars |-> chars]

Str(value) == [type |-> "str", value |-> value]

PyNone == [type |-> "NoneType"]

PyInt == [type |-> "int", value |-> "42"]

List(items) == [type |-> "list", items |-> items]

Tuple(items) == [type |-> "tuple", items |-> items]

\* enum.Enum: the member of enumeration `enum` whose value is `value`.
Member(enum, value) == [type |-> enum, value |-> value]

\* A keyword not given to the constructor; the attribute it leaves reads as
\* None until the row is inserted.
Omitted == [type |-> "omitted"]

\* The values of the members of the three enumerations.
RepositoryStatus == {"pending", "cloning", "processing", "completed", "failed"}

JobStatus == {"pending", "running", "completed", "failed", "cancelled"}

JobType == {"clone", "analysis", "embedding", "indexing", "cleanup"}

\* What a validator does: it returns the value to store, or raises
\* ValueError with a message (named here by its fixed text).
Returns(value) == [raised |-> "none", value |-> value]

Raises(message) == [raised |-> message, value |-> Omitted]

\* The three enumeration validators: `if isinstance(value, str):` the member
\* with that value or ValueError; anything else is returned as it is.
validate_enum(enum, values, message, value) ==
  IF value.type = "str"
  THEN IF value.value \in values THEN Returns(Member(enum, value.value)) ELSE Raises(message)
  ELSE Returns(value)

Repository_validate_status(value) ==
  validate_enum("RepositoryStatus", RepositoryStatus, "Status must be one of", value)

Job_validate_status(value) ==
  validate_enum("JobStatus", JobStatus, "Status must be one of", value)

Job_validate_job_type(value) ==
  validate_enum("JobType", JobType, "Job type must be one of", value)

\* The length every embedding must have.
EmbeddingDim == 1536

\* isinstance(x, int | float), x given by its type; bool is a subclass of int.
is_number(x) == x \in {"int", "float", "bool"}

\* len(value): the lengths of the runs, added up.
RECURSIVE len(_)
len(items) == IF items = <<>> THEN 0 ELSE Head(items).n + len(Tail(items))

\* all(isinstance(x, int | float) for x in value)
all_numbers(items) ==
  \A i \in 1..Len(items) : items[i].n > 0 => is_number(items[i].x)

\* A validator without the length check.
VectorDocument_validate_embedding_any_length(value) ==
  IF value.type # "list" THEN Raises("Embedding must be a list of floats")
  ELSE IF ~ all_numbers(value.items)
  THEN Raises("All embedding values must be numbers")
  ELSE Returns(value)

\* VectorDocument._validate_embedding
VectorDocument_validate_embedding(value) ==
  IF value.type # "list" THEN Raises("Embedding must be a list of floats")
  ELSE IF len(value.items) # EmbeddingDim
  THEN Raises("Embedding must be exactly 1536 dimensions")
  ELSE IF ~ all_numbers(value.items)
  THEN Raises("All embedding values must be numbers")
  ELSE Returns(value)

\* The characters str.strip() removes.
Whitespace == {" ", "\t", "\n", "\r", "\f"}

\* str.strip()
strip(s) ==
  LET keep == {i \in 1..Len(s) : s[i] \notin Whitespace}
  IN IF keep = {} THEN <<>>
     ELSE SubSeq(s, CHOOSE i \in keep : \A j \in keep : i <= j,
                    CHOOSE i \in keep : \A j \in keep : j <= i)

\* `not value`
falsy(value) ==
  \/ value.type = "NoneType"
  \/ value.type = "str" /\ value.chars = <<>>

\* Document._validate_content
Document_validate_content(value) ==
  IF falsy(value) \/ (value.type = "str" /\ strip(value.chars) = <<>>)
  THEN Raises("Content cannot be empty")
  ELSE Returns(value)

Http == <<"h", "t", "t", "p", ":", "/", "/">>

Https == <<"h", "t", "t", "p", "s", ":", "/", "/">>

GithubCom == <<"g", "i", "t", "h", "u", "b", ".", "c", "o", "m">>

StartsWith(s, prefix) ==
  Len(s) >= Len(prefix) /\ SubSeq(s, 1, Len(prefix)) = prefix

\* re.match(r"^https?://[^\s/$.?#].[^\s]*$", s): the scheme, one character
\* that is neither whitespace nor one of / $ . ? #, one character that is
\* not a newline, then no whitespace up to the end (`$` also matches before
\* a newline that ends the string).
re_match_url(s) ==
  \E n \in {Len(Http), Len(Https)} :
    /\ StartsWith(s, IF n = Len(Http) THEN Http ELSE Https)
    /\ Len(s) >= n + 2
    /\ s[n + 1] \notin Whitespace \cup {"/", "$", ".", "?", "#"}
    /\ s[n + 2] # "\n"
    /\ \A i \in (n + 3)..(Len(s) - 1) : s[i] \notin Whitespace
    /\ Len(s) > n + 2 => s[Len(s)] \notin (Whitespace \ {"\n"})

\* Repository._validate_url
Repository_validate_url(value) ==
  IF falsy(value) THEN Raises("URL cannot be empty")
  ELSE IF ~ re_match_url(value.chars) THEN Raises("Invalid GitHub URL format")
  ELSE IF ~ Contains(lower(value.chars), GithubCom)
  THEN Raises("URL must be a GitHub repository")
  ELSE Returns(value)

\* A field that no @validates method watches: the value is stored as it is.
no_validator(value) == Returns(value)

\* The @validates method of each class for each attribute.
validate(cls, field, value) ==
  CASE cls = "Repository" /\ field = "url" -> Repository_validate_url(value)
    [] cls = "Repository" /\ field = "status" -> Repository_validate_status(value)
    [] cls = "Job" /\ field = "status" -> Job_validate_status(value)
    [] cls = "Job" /\ field = "job_type" -> Job_validate_job_type(value)
    [] cls = "Document" /\ field = "content" -> Document_validate_content(value)
    [] cls = "VectorDocument" /\ field = "embedding" -> VectorDocument_validate_embedding(value)
    [] OTHER -> no_validator(value)

Classes == {"Repository", "Job", "Document", "VectorDocument"}

\* The attributes of each class that the model follows.
Fields(cls) ==
  CASE cls = "Repository" -> {"url", "status"}
    [] cls = "Job" -> {"status", "job_type"}
    [] cls = "Document" -> {"content"}
    [] OTHER -> {"content", "embedding"}

(* ---------- the values the callers assign ---------- *)
UrlGithub == Text(<<"h", "t", "t", "p", "s", ":", "/", "/", "g", "i", "t", "h", "u", "b", ".", "c", "o", "m", "/", "u", "/", "r">>)

UrlGithubUpper == Text(<<"h", "t", "t", "p", ":", "/", "/", "G", "i", "t", "H", "u", "b", ".", "c", "o", "m", "/", "u">>)

UrlGitlab == Text(<<"h", "t", "t", "p", "s", ":", "/", "/", "g", "i", "t", "l", "a", "b", ".", "c", "o", "m", "/", "u", "/", "r">>)

UrlNotAUrl == Text(<<"n", "o", "t", "-", "a", "-", "v", "a", "l", "i", "d", "-", "u", "r", "l">>)

UrlFtp == Text(<<"f", "t", "p", ":", "/", "/", "g", "i", "t", "h", "u", "b", ".", "c", "o", "m", "/", "u">>)

UrlWithSpace == Text(<<"h", "t", "t", "p", "s", ":", "/", "/", "g", "i", "t", "h", "u", "b", ".", "c", "o", "m", "/", "u", " ", "r">>)

\* Another host, with github.com somewhere in the path.
UrlOtherHost == Text(<<"h", "t", "t", "p", "s", ":", "/", "/", "e", "v", "i", "l", ".", "i", "o", "/", "g", "i", "t", "h", "u", "b", ".", "c", "o", "m">>)

UrlInputs ==
  { UrlGithub, UrlGithubUpper, UrlGitlab, UrlNotAUrl, UrlFtp, UrlWithSpace,
    UrlOtherHost, Text(<<>>), PyNone }

StatusInputs ==
  {Str(v) : v \in RepositoryStatus \cup JobStatus \cup {"invalid_status", "PENDING"}}
    \cup {Member("RepositoryStatus", v) : v \in {"pending", "cloning"}}
    \cup {Member("JobStatus", v) : v \in {"pending", "running"}}
    \cup {PyNone, PyInt}

JobTypeInputs ==
  {Str(v) : v \in {"clone", "embedding", "invalid_type"}}
    \cup {Member("JobType", v) : v \in {"clone", "cleanup"}}
    \cup {Member("JobStatus", "pending"), PyNone, PyInt}

ContentInputs ==
  { Text(<<"a">>), Text(<<" ", "a", " ">>), Text(<<>>), Text(<<" ", "\n", "\t">>), PyNone }

\* [x] * n: n elements of type x.
Repeat(n, x) == << [n |-> n, x |-> x] >>

EmbeddingInputs ==
  { List(Repeat(EmbeddingDim, "float")),
    List(Repeat(EmbeddingDim, "int")),
    List(Repeat(EmbeddingDim - 1, "float") \o Repeat(1, "bool")),
    List(Repeat(EmbeddingDim - 1, "float") \o Repeat(1, "str")),
    List(Repeat(EmbeddingDim - 1, "float")),
    List(Repeat(EmbeddingDim + 1, "float")),
    List(Repeat(768, "float")),
    List(<<>>),
    Tuple(Repeat(EmbeddingDim, "float")),
    Text(<<"n", "o", "t", " ", "a", " ", "l", "i", "s", "t">>),
    PyNone }

Inputs(cls, field) ==
  CASE field = "url" -> UrlInputs
    [] field = "status" -> StatusInputs
    [] field = "job_type" -> JobTypeInputs
    [] field = "content" -> ContentInputs
    [] OTHER -> EmbeddingInputs

\* The keyword arguments of a constructor call: each field given a value or
\* left out.
Kwargs(cls) ==
  LET a == CHOOSE f \in Fields(cls) : TRUE
      b == IF Fields(cls) = {a} THEN a ELSE CHOOSE f \in Fields(cls) : f # a
  IN { [f \in Fields(cls) |-> IF f = a THEN x ELSE y] :
         x \in Inputs(cls, a) \cup {Omitted}, y \in Inputs(cls, b) \cup {Omitted} }

\* No object yet.
NoEntity == [cls |-> "none", fields |-> [f \in {} |-> Omitted]]

NoAssignment ==
  [ op |-> "none", cls |-> "none", args |-> [f \in {} |-> Omitted],
    was |-> Omitted, raised |-> "none" ]

\* The fields a call gives, in the order the constructor sets them.
Given(args) == {f \in DOMAIN args : args[f] # Omitted}

\* What a construction with args can raise: the keywords are set in the
\* order the caller wrote them, so the message is that of the first keyword
\* whose validator raises, which can be any of those that raise; "none"
\* when none does.
first_raised(cls, args) ==
  LET bad == {f \in Given(args) : validate(cls, f, args[f]).raised # "none"}
  IN IF bad = {} THEN {"none"}
     ELSE {validate(cls, f, args[f]).raised : f \in bad}

\* cls(**kw): the constructor sets each keyword it is given, through the
\* attribute's validator; a validator that raises ends the construction,
\* and there is no object.  The model follows one object at a time.
Construct(cls, kw) ==
  /\ entity.cls = "none"
  /\ \E raised \in first_raised(cls, kw) :
        /\ entity' =
             IF raised = "none"
             THEN [ cls |-> cls,
                    fields |-> [f \in Fields(cls) |->
                                  IF kw[f] = Omitted THEN Omitted
                                  ELSE validate(cls, f, kw[f]).value] ]
             ELSE entity
        /\ assigned' = [ op |-> "construct", cls |-> cls, args |-> kw,
                         was |-> Omitted, raised |-> raised ]
  /\ UNCHANGED <<cvars, hvars, avars>>

\* An assignment that refuses to leave a final status.
Assign_final_status_kept(field, value) ==
  /\ entity.cls # "none"
  /\ field \in Fields(entity.cls)
  /\ value \in Inputs(entity.cls, field)
  /\ LET r == IF field = "status" /\ entity.fields[field].type \in {"RepositoryStatus", "JobStatus"}
                  /\ entity.fields[field].value \in {"completed", "failed", "cancelled"}
              THEN Raises("Status must be one of")
              ELSE validate(entity.cls, field, value)
     IN /\ entity' = IF r.raised = "none"
                     THEN [entity EXCEPT !.fields[field] = r.value]
                     ELSE entity
        /\ assigned' = [ op |-> "assign", cls |-> entity.cls,
                         args |-> [f \in {field} |-> value],
                         was |-> entity.fields[field],
                         raised |-> r.raised ]
  /\ UNCHANGED <<cvars, hvars, avars>>

\* entity.field = value, through the attribute's validator; when it raises,
\* the attribute keeps what it held.  The validator is given the key and
\* the new value, not what the attribute holds.
Assign(field, value) ==
  /\ entity.cls # "none"
  /\ field \in Fields(entity.cls)
  /\ value \in Inputs(entity.cls, field)
  /\ LET r == validate(entity.cls, field, value)
     IN /\ entity' = IF r.raised = "none"
                     THEN [entity EXCEPT !.fields[field] = r.value]
                     ELSE entity
        /\ assigned' = [ op |-> "assign", cls |-> entity.cls,
                         args |-> [f \in {field} |-> value],
                         was |-> entity.fields[field],
                         raised |-> r.raised ]
  /\ UNCHANGED <<cvars, hvars, avars>>

\* The object is dropped; another can be constructed.
Discard ==
  /\ entity.cls # "none"
  /\ entity' = NoEntity
  /\ assigned' = NoAssignment
  /\ UNCHANGED <<cvars, hvars, avars>>

(* ---------- the reports of DatabaseHealthChecker ---------- *)
\* A report is the dict {"status": ..., "timestamp": ..., "checks": {...}};
\* "checks" maps the names of sub-checks to their entries.  The timestamp
\* (the wall clock at the call) is left out.  A message is the sequence of
\* its words, the text of an exception being the one word that names it.
EmptyChecks == [k \in {} |-> [status |-> "healthy", message |-> <<>>]]

\* result = {"status": "healthy", "timestamp": ..., "checks": {}}
new_result == [status |-> "healthy", checks |-> EmptyChecks]

\* No report: the call has not returned one.
NoResult == [status |-> "none", checks |-> EmptyChecks]

\* result["checks"][name] = entry
set_check(result, name, entry) ==
  [ status |-> result.status,
    checks |-> [k \in DOMAIN result.checks \cup {name} |->
                  IF k = name THEN entry ELSE result.checks[k]] ]

\* result["status"] = "unhealthy"
set_unhealthy(result) == [result EXCEPT !.status = "unhealthy"]

\* No health check is running.  pc: where the running call is; op: the
\* method that was called; mgr: the checker's self._database_engine; task:
\* the task inside the probe's session scope; result: the running probe's
\* result; connectivity_check, pgvector_check: the results
\* comprehensive_health_check has collected; executed: the queries the call
\* has awaited (and the get_session that failed), with how each ended.
IdleChecker ==
  [ pc |-> "idle", op |-> "none", mgr |-> None, task |-> None,
    result |-> NoResult, connectivity_check |-> NoResult,
    pgvector_check |-> NoResult, executed |-> <<>> ]

\* The pool counters have not been read.
NoReading == [outcome |-> "none", size |-> 0, checkedin |-> 0, checkedout |-> 0, overflow |-> 0]

NoReport ==
  [ op |-> "none", ret |-> NoResult, raised |-> "none",
    connectivity_check |-> NoResult, pgvector_check |-> NoResult,
    pool_check |-> NoResult, executed |-> <<>>, reading |-> NoReading ]

\* The history of the readiness endpoint: nothing answered yet, and the
\* record of a call.
NoResponse ==
  [ status_code |-> 0, status |-> "none",
    checks |-> [database |-> "none", redis |-> "none"] ]

Answered(op, ctx, e, c, out, bound, db, redis, ran, response) ==
  [ op |-> op, ctx |-> ctx, env |-> e, cache_env |-> c, store |-> out,
    bound |-> bound, db_healthy |-> db, redis_healthy |-> redis, ran |-> ran,
    response |-> response ]

NoAnswer ==
  Answered("none", "none", EnvNothing, EnvNothing, "none",
           [database |-> "none", redis |-> "none"], FALSE, FALSE, FALSE, NoResponse)

Init ==
  /\ database_engine = None
  /\ managers = <<>>
  /\ engines = <<>>
  /\ factories = <<>>
  /\ sessions = <<>>
  /\ task = [t \in Tasks |-> IdleTask]
  /\ last = NoCall
  /\ hc = IdleChecker
  /\ report = NoReport
  /\ entity = NoEntity
  /\ assigned = NoAssignment
  /\ answer = NoAnswer

\* get_async_engine() is called with the environment being e.
GetAsyncEngine(t, e) ==
  /\ CanCall(t)
  /\ LET r == get_async_engine(e, database_engine, managers)
     IN /\ Len(r.managers) <= MaxManagers
        /\ database_engine' = r.database_engine
        /\ managers' = r.managers
        /\ last' = Returned("get_async_engine", None, r.ret, r.raised, e, None,
                            Before(None))
  /\ UNCHANGED <<engines, factories, sessions, task>>

\* The `engine` property of manager m is read.
EngineProperty(t, m) ==
  /\ CanCall(t)
  /\ LET r == engine_get(managers, engines, m)
     IN /\ Len(r.engines) <= MaxEngines
        /\ managers' = r.managers
        /\ engines' = r.engines
        /\ last' = Returned("engine", m, r.ret, "none", EnvNothing, None, Before(m))
  /\ UNCHANGED <<database_engine, factories, sessions, task>>

\* The `session_factory` property of manager m is read.
SessionFactoryProperty(t, m) ==
  /\ CanCall(t)
  /\ LET r == session_factory_get(managers, engines, factories, m)
     IN /\ Len(r.engines) <= MaxEngines
        /\ managers' = r.managers
        /\ engines' = r.engines
        /\ factories' = r.factories
        /\ last' = Returned("session_factory", m, r.ret, "none", EnvNothing, None,
                            Before(m))
  /\ UNCHANGED <<database_engine, sessions, task>>

(* ---------- DatabaseEngine.get_session ---------- *)
\* What can end the caller's body inside the scope: it runs to its end, it
\* returns early, it raises an exception (a subclass of Exception), or the
\* task is cancelled at one of the body's awaits (asyncio.CancelledError,
\* which derives from BaseException, not from Exception).
ExceptionSubclasses == {"RuntimeError", "SQLAlchemyError"}
BaseExceptionOnly == {"CancelledError"}
BodyOutcomes == {"normal", "return"} \cup ExceptionSubclasses \cup BaseExceptionOnly

\* What is thrown into the generator at its `yield`.
thrown(how) == IF how \in {"normal", "return"} THEN "none" ELSE how

\* `except Exception:` matches the subclasses of Exception only.
except_Exception(x) == x \in ExceptionSubclasses

\* A handler that raised the error of its docstring instead of `raise`.
reraise_wrapped(x) == "DatabaseConnectionError"

\* The bare `raise` of the handler re-raises the exception being handled.
reraise(x) == x

\* The control flow if the try/except were wrapped around the `async with`
\* instead of inside it: the session is closed first, the handler runs after.
NextPcHandlerOutside(pc, x) ==
  CASE pc = "body" -> "aexit"
    [] pc = "aexit" -> IF x # "none" /\ except_Exception(x) THEN "rollback" ELSE "leave"
    [] pc = "rollback" -> "leave"
    [] OTHER -> "idle"

\* Control flow of the generator after the body has ended with x in flight:
\*   async with self.session_factory() as session:     "aexit" is its exit
\*       try: yield session                            "body"
\*       except Exception:
\*           await session.rollback()                  "rollback"
\*           raise
\* and "leave" is the return to the caller's `async with` statement.
NextPc(pc, x) ==
  CASE pc = "body" -> IF x # "none" /\ except_Exception(x) THEN "rollback" ELSE "aexit"
    [] pc = "rollback" -> "aexit"
    [] pc = "aexit" -> "leave"
    [] OTHER -> "idle"

\* `async with self.session_factory() as session:` up to the yield: the
\* factory property, a new session from the factory, the session handed to
\* the caller.  Nothing here suspends.
EnterScope(t, m) ==
  /\ CanCall(t)
  /\ LET r == session_factory_get(managers, engines, factories, m)
         s == Len(sessions) + 1
     IN /\ Len(r.engines) <= MaxEngines
        /\ s <= MaxSessions
        /\ managers' = r.managers
        /\ engines' = r.engines
        /\ factories' = r.factories
        /\ sessions' = Append(sessions, new_session(r.factories[r.ret].bind))
        /\ task' = [task EXCEPT ![t].pc = "body", ![t].ses = s]
  /\ UNCHANGED <<database_engine, last>>

\* The caller's body ends in one of the ways above.
BodyEnds(t, how) ==
  /\ task[t].pc = "body"
  /\ sessions' = [sessions EXCEPT ![task[t].ses].outcome = how]
  /\ task' = [task EXCEPT ![t].exc = thrown(how),
                          ![t].pc = NextPc("body", thrown(how))]
  /\ UNCHANGED <<database_engine, managers, engines, factories, last>>

\* A handler that re-raises without rolling back.
Rollback_not_issued(t) ==
  /\ task[t].pc = "rollback"
  /\ sessions' = sessions
  /\ task' = [task EXCEPT ![t].exc = reraise(task[t].exc),
                          ![t].pc = NextPc("rollback", task[t].exc)]
  /\ UNCHANGED <<database_engine, managers, engines, factories, last>>

\* The handler: `await session.rollback()`, then `raise`.
Rollback(t) ==
  /\ task[t].pc = "rollback"
  /\ sessions' = [sessions EXCEPT ![task[t].ses].log = Append(@, "rollback")]
  /\ task' = [task EXCEPT ![t].exc = reraise(task[t].exc),
                          ![t].pc = NextPc("rollback", task[t].exc)]
  /\ UNCHANGED <<database_engine, managers, engines, factories, last>>

\* An exit that closes the session only when nothing is in flight (a close()
\* written after the yield instead of an `async with`).
SessionAExitOnSuccessOnly(t) ==
  /\ task[t].pc = "aexit"
  /\ sessions' = [sessions EXCEPT ![task[t].ses].log =
                    IF task[t].exc = "none" THEN Append(@, "close") ELSE @]
  /\ task' = [task EXCEPT ![t].pc = NextPc("aexit", task[t].exc)]
  /\ UNCHANGED <<database_engine, managers, engines, factories, last>>

\* The exit of `async with ... as session`: the session is closed, and the
\* exit does not suppress what is in flight.
SessionAExit(t) ==
  /\ task[t].pc = "aexit"
  /\ sessions' = [sessions EXCEPT ![task[t].ses].log = Append(@, "close")]
  /\ task' = [task EXCEPT ![t].pc = NextPc("aexit", task[t].exc)]
  /\ UNCHANGED <<database_engine, managers, engines, factories, last>>

\* The scope is left: what is in flight reaches the caller.
LeaveScope(t) ==
  /\ task[t].pc = "leave"
  /\ sessions' = [sessions EXCEPT ![task[t].ses].log = Append(@, "exit"),
                                  ![task[t].ses].reached = task[t].exc]
  /\ task' = [task EXCEPT ![t] = IdleTask]
  /\ last' = Returned("get_session", None, task[t].ses, task[t].exc, EnvNothing, None,
                      NoSnapshot)
  /\ UNCHANGED <<database_engine, managers, engines, factories>>

(* ---------- DatabaseEngine.close, close_database_engine ---------- *)
\* `if self._engine is not None:`
close_guard(ms, m) == ms[m].engine # None

\* `self._engine.dispose()` is called on the engine the manager refers to.
dispose_called(es, e) == [es EXCEPT ![e].disposals = @ + 1]

\* A close() that forgets the session factory.
close_reset_engine_only(ms, m) == [ms EXCEPT ![m].engine = None]

\* A close() that resets the session factory and keeps the engine.
close_reset_factory_only(ms, m) == [ms EXCEPT ![m].session_factory = None]

\* A close() that disposes but keeps its references.
close_reset_nothing(ms, m) == ms

\* `self._engine = None; self._session_factory = None`
close_reset(ms, m) ==
  [ms EXCEPT ![m].engine = None, ![m].session_factory = None]

\* History: the engine a reset takes the manager's reference away from, and
\* the manager the global is taken away from.
mark_dropped(es, e) == IF e = None THEN es ELSE [es EXCEPT ![e].dropped = TRUE]

mark_disposed(es, e) == [es EXCEPT ![e].disposed = TRUE]

mark_released(ms, g) == IF g = None THEN ms ELSE [ms EXCEPT ![g].released = TRUE]

\* close() on manager m.  With no engine it returns at once; otherwise
\* dispose() is called and awaited.
Close(t, m) ==
  /\ CanCall(t)
  /\ IF close_guard(managers, m)
     THEN /\ engines[managers[m].engine].disposals < MaxDisposals
          /\ engines' = dispose_called(engines, managers[m].engine)
          /\ task' = [task EXCEPT ![t].pc = "dispose", ![t].closing = m,
                                  ![t].target = managers[m].engine,
                                  ![t].global = FALSE]
          /\ last' = last
     ELSE /\ engines' = engines
          /\ task' = task
          /\ last' = Returned("close", m, None, "none", EnvNothing, None, Before(m))
  /\ UNCHANGED <<database_engine, managers, factories, sessions>>

\* close_database_engine(): with no global it returns at once; otherwise it
\* awaits the global's close() and then unsets the global.  A close() that
\* finds no engine does not suspend.
CloseDatabaseEngine(t) ==
  /\ CanCall(t)
  /\ IF database_engine = None
     THEN /\ last' = Returned("close_database_engine", None, None, "none", EnvNothing,
                              None, Before(None))
          /\ UNCHANGED <<database_engine, managers, engines, task>>
     ELSE LET m == database_engine
          IN IF close_guard(managers, m)
             THEN /\ engines[managers[m].engine].disposals < MaxDisposals
                  /\ engines' = dispose_called(engines, managers[m].engine)
                  /\ task' = [task EXCEPT ![t].pc = "dispose", ![t].closing = m,
                                          ![t].target = managers[m].engine,
                                          ![t].global = TRUE]
                  /\ UNCHANGED <<database_engine, managers, last>>
             ELSE /\ database_engine' = None
                  /\ managers' = mark_released(managers, m)
                  /\ last' = Returned("close_database_engine", m, None, "none",
                                      EnvNothing, None, Before(m))
                  /\ UNCHANGED <<engines, task>>
  /\ UNCHANGED <<factories, sessions>>

\* dispose() returns: close() resets the manager, and close_database_engine
\* then unsets the global.
DisposeReturns(t) ==
  /\ task[t].pc = "dispose"
  /\ engines' = mark_dropped(mark_disposed(engines, task[t].target),
                             managers[task[t].closing].engine)
  /\ IF task[t].global
     THEN /\ database_engine' = None
          /\ managers' = mark_released(close_reset(managers, task[t].closing),
                                       database_engine)
     ELSE /\ database_engine' = database_engine
          /\ managers' = close_reset(managers, task[t].closing)
  /\ task' = [task EXCEPT ![t] = IdleTask]
  /\ last' = Returned(IF task[t].global THEN "close_database_engine" ELSE "close",
                      task[t].closing, None, "none", EnvNothing, task[t].target,
                      NoSnapshot)
  /\ UNCHANGED <<factories, sessions>>

\* A close() that resets its references in a `finally`.
DisposeFails_reset_anyway(t) ==
  /\ task[t].pc = "dispose"
  /\ managers' = close_reset(managers, task[t].closing)
  /\ task' = [task EXCEPT ![t] = IdleTask]
  /\ last' = Returned(IF task[t].global THEN "close_database_engine" ELSE "close",
                      task[t].closing, None, "DisposeError", EnvNothing,
                      task[t].target, NoSnapshot)
  /\ UNCHANGED <<database_engine, engines, factories, sessions>>

\* dispose() raises: the failure leaves close() (and close_database_engine)
\* before any reference is reset.
DisposeFails(t) ==
  /\ task[t].pc = "dispose"
  /\ task' = [task EXCEPT ![t] = IdleTask]
  /\ last' = Returned(IF task[t].global THEN "close_database_engine" ELSE "close",
                      task[t].closing, None, "DisposeError", EnvNothing,
                      task[t].target, NoSnapshot)
  /\ UNCHANGED <<database_engine, managers, engines, factories, sessions>>

(* ---------- the readiness endpoint (api/health.py) ---------- *)
\* REDIS_URL in the environment, or not.
EnvRedis == [k \in {"REDIS_URL"} |-> <<"r">>]

CacheEnvs == {EnvNothing, EnvRedis}

\* Where a synchronous function is called from: "sync", a thread with no
\* running event loop; "loop", code run by the event loop (a coroutine such
\* as an `async def` endpoint).
Contexts == {"sync", "loop"}

\* How `await session.execute(text("SELECT 1"))` ends when it is awaited.
StoreOutcomes == {"ok"} \cup ExceptionSubclasses

\* asyncio.run(coro) raises RuntimeError("asyncio.run() cannot be called
\* from a running event loop") before it runs anything of coro; with no
\* running loop it runs coro to its end.
asyncio_run_raises(ctx) == ctx = "loop"

\* The session of a scope that was entered and left in one go, its body
\* ending with `how`.
scope_done(bind, how) ==
  [ bind |-> bind, outcome |-> how,
    log |-> IF except_Exception(thrown(how)) THEN <<"rollback", "close", "exit">>
            ELSE <<"close", "exit">>,
    reached |-> reraise(thrown(how)) ]

\* The heap the checks work on.
Heap ==
  [ database_engine |-> database_engine, managers |-> managers, engines |-> engines,
    factories |-> factories, sessions |-> sessions ]

\* _check_db(), run to its end: get_async_engine(), then the scope of
\* engine.get_session() around the query, which ends with `out`; `return
\* True` inside the scope.  Result: the heap, what it returned or raised.
check_db(e, out, h) ==
  LET g == get_async_engine(e, h.database_engine, h.managers)
  IN IF g.raised # "none"
     THEN [ heap |-> h, ret |-> FALSE, raised |-> g.raised ]
     ELSE LET f == session_factory_get(g.managers, h.engines, h.factories, g.ret)
              how == IF out = "ok" THEN "return" ELSE out
          IN [ heap |-> [ database_engine |-> g.database_engine,
                          managers |-> f.managers, engines |-> f.engines,
                          factories |-> f.factories,
                          sessions |-> Append(h.sessions,
                                              scope_done(f.factories[f.ret].bind, how)) ],
               ret |-> out = "ok",
               raised |-> thrown(how) ]

\* check_database_health(): `return asyncio.run(_check_db())`, and False
\* from either handler.
check_database_health(ctx, e, out, h) ==
  IF asyncio_run_raises(ctx) THEN [heap |-> h, ret |-> FALSE, ran |-> FALSE]
  ELSE LET r == check_db(e, out, h)
       IN [ heap |-> r.heap,
            ret |-> IF r.raised = "none" THEN r.ret ELSE FALSE,
            ran |-> TRUE ]

\* check_redis_health(): get_redis_cache() raises without REDIS_URL;
\* connect(), ping(), disconnect(); the answer of ping().
check_redis_health(ctx, c) ==
  IF asyncio_run_raises(ctx) THEN FALSE
  ELSE ~ getenv_falsy(c, "REDIS_URL")

\* "healthy" if ... else "unhealthy"
health_word(b) == IF b THEN "healthy" ELSE "unhealthy"

\* A readiness that is content with one service.
readiness_response_any(db_healthy, redis_healthy) ==
  [ status_code |-> IF db_healthy \/ redis_healthy THEN 200 ELSE 503,
    status |-> health_word(db_healthy \/ redis_healthy),
    checks |-> [database |-> health_word(db_healthy), redis |-> health_word(redis_healthy)] ]

\* readiness_check after the two checks: the checks dict, all_healthy, the
\* response returned (200) or carried by HTTPException(503).
readiness_response(db_healthy, redis_healthy) ==
  [ status_code |-> IF db_healthy /\ redis_healthy THEN 200 ELSE 503,
    status |-> health_word(db_healthy /\ redis_healthy),
    checks |-> [database |-> health_word(db_healthy), redis |-> health_word(redis_healthy)] ]

\* What the names check_database_health and check_redis_health are bound to
\* in the module when the endpoint calls them: the module's own function, or
\* a stand-in that returns a fixed value.
Bindings == {"own", "returns_true", "returns_false"}

(* ---------- DatabaseHealthChecker: the pure parts ---------- *)
\* `except SQLAlchemyError as e:`, the first handler of the session probes.
except_SQLAlchemyError(x) == x = "SQLAlchemyError"

\* f"Database connection failed: {str(e)}" / f"pgvector check failed: {str(e)}"
failed_message(name, x) ==
  IF name = "connectivity"
  THEN <<"Database", "connection", "failed:", x>>
  ELSE <<"pgvector", "check", "failed:", x>>

\* f"Unexpected error: {str(e)}"
unexpected_message(x) == <<"Unexpected", "error:", x>>

\* A probe with the first handler only.
probe_catches_store_errors_only(x) == except_SQLAlchemyError(x)

\* The two handlers of a session probe together catch every Exception.
probe_catches(x) == except_SQLAlchemyError(x) \/ except_Exception(x)

\* Handlers that record the entry and forget result["status"].
probe_except_status_kept(result, name, x) ==
  set_check(result, name, [status |-> "unhealthy", message |-> unexpected_message(x)])

\* Handlers that leave an entry the body has already recorded.
probe_except_entry_kept(result, name, x) ==
  IF name \in DOMAIN result.checks THEN set_unhealthy(result)
  ELSE set_check(set_unhealthy(result), name,
                 [status |-> "unhealthy", message |-> unexpected_message(x)])

\* The handler that matches x: the probe and its sub-check `name` turn
\* unhealthy, whatever the body had recorded under that name.
probe_except(result, name, x) ==
  set_check(set_unhealthy(result), name,
            [ status |-> "unhealthy",
              message |-> IF except_SQLAlchemyError(x)
                          THEN failed_message(name, x)
                          ELSE unexpected_message(x) ])

\* What a session probe gives its caller once its scope is left with x in
\* flight ("none": nothing): the result, or the exception no handler matched.
probe_leaves(result, name, x) ==
  IF x = "none" THEN [ret |-> result, raised |-> "none"]
  ELSE IF probe_catches(x) THEN [ret |-> probe_except(result, name, x), raised |-> "none"]
  ELSE [ret |-> NoResult, raised |-> x]

\* The connectivity entry after `await session.execute(select(1))` returned.
connectivity_ok(result) ==
  set_check(result, "connectivity",
            [ status |-> "healthy",
              message |-> <<"Database", "connection", "successful">> ])

\* A probe that takes every answer of the catalog query for a row.
extension_row_ignored(out) == TRUE

\* `if extension_row:` -- fetchone() gave a row.
extension_row(out) == out = "row"

\* The two branches after the catalog query (lines 81-85 and 98-103).
catalog_result(result, out) ==
  IF extension_row(out)
  THEN set_check(result, "pgvector_extension",
                 [ status |-> "healthy",
                   message |-> <<"pgvector", "extension", "version", "is", "installed">> ])
  ELSE set_check(set_unhealthy(result), "pgvector_extension",
                 [ status |-> "unhealthy",
                   message |-> <<"pgvector", "extension", "is", "not", "installed">> ])

\* The vector_operations entry after the distance query returned.
distance_ok(result) ==
  set_check(result, "vector_operations",
            [ status |-> "healthy",
              message |-> <<"Vector", "distance", "calculation", "successful:", "distance">> ])

\* What the pool of an engine configured by cfg can answer to size(),
\* checkedin(), checkedout() and overflow(): an idle pool that has opened
\* nothing yet, a pool in use, and a saturated pool (every connection and
\* every overflow connection checked out).
PoolReadings(cfg) ==
  UNION { { [ outcome |-> "read", size |-> cfg.pool_size, checkedin |-> ci,
              checkedout |-> cfg.pool_size + ov - ci, overflow |-> ov ] :
              ci \in {c \in {0, 1} : c <= cfg.pool_size + ov} } :
          ov \in {0 - cfg.pool_size, 0, cfg.max_overflow} }

\* Reading the counters raised x.
PoolRaises(x) == [outcome |-> x, size |-> 0, checkedin |-> 0, checkedout |-> 0, overflow |-> 0]

\* An entry whose total counts the connections checked out.
pool_entry_total_checked_out(r) ==
  [ status |-> "healthy", pool_size |-> r.size, checked_in |-> r.checkedin,
    checked_out |-> r.checkedout, overflow |-> r.overflow,
    total_connections |-> r.checkedout ]

\* result["checks"]["connection_pool"] of a pool whose counters were read.
pool_entry(r) ==
  [ status |-> "healthy", pool_size |-> r.size, checked_in |-> r.checkedin,
    checked_out |-> r.checkedout, overflow |-> r.overflow,
    total_connections |-> r.size + r.overflow ]

\* check_pool_status, given what reading the pool gave; its one handler is
\* `except Exception`.
check_pool_status(r) ==
  IF r.outcome = "read"
  THEN set_check(new_result, "connection_pool", pool_entry(r))
  ELSE set_check(set_unhealthy(new_result), "connection_pool",
                 [ status |-> "unhealthy",
                   message |-> <<"Pool", "status", "check", "failed:", r.outcome>> ])

\* An aggregation that is unhealthy only when all three probes are.
overall_status_all(c, p, q) ==
  IF c.status # "healthy" /\ p.status # "healthy" /\ q.status # "healthy"
  THEN "unhealthy" ELSE "healthy"

\* overall_status of comprehensive_health_check.
overall_status(c, p, q) ==
  IF c.status # "healthy" \/ p.status # "healthy" \/ q.status # "healthy"
  THEN "unhealthy" ELSE "healthy"

\* A merge that keeps the first dict only.
merge_checks_first_only(a, b) == a

\* {**a, **b}: the keys of both, b's entry where both have the key.
merge_checks(a, b) ==
  [k \in DOMAIN a \cup DOMAIN b |-> IF k \in DOMAIN b THEN b[k] ELSE a[k]]

\* The dict comprehensive_health_check returns.
comprehensive_report(c, p, q) ==
  [ status |-> overall_status(c, p, q),
    checks |-> merge_checks(merge_checks(c.checks, p.checks), q.checks) ]

(* ---------- DatabaseHealthChecker: the calls ---------- *)
HealthOps ==
  { "check_basic_connectivity", "check_pgvector_extension", "check_pool_status",
    "comprehensive_health_check" }

\* How an awaited session.execute can end: it returns, it raises, or the
\* task is cancelled while it waits.
QueryOutcomes == {"ok"} \cup ExceptionSubclasses \cup BaseExceptionOnly

\* The probe a call starts with.
first_pc(op) ==
  CASE op = "check_pgvector_extension" -> "pgvector"
    [] op = "check_pool_status" -> "pool"
    [] OTHER -> "connectivity"

Reported(op, ret, raised, c, p, q, executed, reading) ==
  [ op |-> op, ret |-> ret, raised |-> raised, connectivity_check |-> c,
    pgvector_check |-> p, pool_check |-> q, executed |-> executed,
    reading |-> reading ]

\* A comprehensive_health_check that returns at the first unhealthy probe.
after_probe_stops_when_unhealthy(h, out, next, rep) ==
  IF h.op # "comprehensive_health_check" \/ out.raised # "none" \/ out.ret.status = "unhealthy"
  THEN [ hc |-> IdleChecker,
         report |-> Reported(h.op, out.ret, out.raised,
                             IF h.pc \in {"connectivity", "conn_exit"} THEN out.ret
                             ELSE h.connectivity_check,
                             IF h.pc \in {"pgvector", "pg_exit"} THEN out.ret ELSE NoResult,
                             NoResult, h.executed, NoReading) ]
  ELSE [ hc |-> [h EXCEPT !.pc = next, !.task = None, !.result = NoResult,
                          !.connectivity_check =
                             IF next = "pgvector" THEN out.ret ELSE @,
                          !.pgvector_check =
                             IF next = "pool" THEN out.ret ELSE @],
         report |-> rep ]

\* A session probe is over with `out` (probe_leaves) for a call in state h:
\* called directly it returns to its caller; awaited by
\* comprehensive_health_check it hands over its result and the next probe
\* (pc `next`) follows, or its exception ends comprehensive_health_check.
after_probe(h, out, next, rep) ==
  IF h.op # "comprehensive_health_check" \/ out.raised # "none"
  THEN [ hc |-> IdleChecker,
         report |-> Reported(h.op,
                             IF h.op = "comprehensive_health_check" THEN NoResult ELSE out.ret,
                             out.raised,
                             IF h.pc \in {"connectivity", "conn_exit"} THEN out.ret
                             ELSE h.connectivity_check,
                             IF h.pc \in {"pgvector", "pg_exit"} THEN out.ret ELSE NoResult,
                             NoResult, h.executed, NoReading) ]
  ELSE [ hc |-> [h EXCEPT !.pc = next, !.task = None, !.result = NoResult,
                          !.connectivity_check =
                             IF next = "pgvector" THEN out.ret ELSE @,
                          !.pgvector_check =
                             IF next = "pool" THEN out.ret ELSE @],
         report |-> rep ]

\* A method of the checker built on manager m is called; it has reported
\* nothing yet.
StartHealthCheck(m, op) ==
  /\ hc.pc = "idle"
  /\ hc' = [IdleChecker EXCEPT !.pc = first_pc(op), !.op = op, !.mgr = m]
  /\ report' = NoReport
  /\ UNCHANGED <<database_engine, managers, engines, factories, sessions, task, last>>

\* check_basic_connectivity up to its first await: the result dict, and
\* `async with self._database_engine.get_session() as session:`.
ConnectivityEnter(t) ==
  /\ hc.pc = "connectivity"
  /\ EnterScope(t, hc.mgr)
  /\ hc' = [hc EXCEPT !.pc = "conn_execute", !.task = t, !.result = new_result]
  /\ UNCHANGED report

\* Acquiring the session raises x (the engine or the session cannot be
\* built): no scope is entered, the handlers run, the probe returns.
ConnectivityAcquireFails(x) ==
  /\ hc.pc = "connectivity"
  /\ LET h == [hc EXCEPT !.executed = Append(@, [query |-> "get_session", outcome |-> x])]
         a == after_probe(h, probe_leaves(new_result, "connectivity", x), "pgvector", report)
     IN /\ hc' = a.hc
        /\ report' = a.report
  /\ UNCHANGED <<database_engine, managers, engines, factories, sessions, task, last>>

\* `await session.execute(select(1))` ends with out; the body of the scope
\* ends with it.
ConnectivityExecute(t, out) ==
  /\ hc.pc = "conn_execute"
  /\ t = hc.task
  /\ BodyEnds(t, IF out = "ok" THEN "normal" ELSE out)
  /\ hc' = [hc EXCEPT !.pc = "conn_exit",
                      !.result = IF out = "ok" THEN connectivity_ok(@) ELSE @,
                      !.executed = Append(@, [query |-> "select_1", outcome |-> out])]
  /\ UNCHANGED report

\* The scope is left; the handlers and `return result` follow at once.
ConnectivityLeave(t) ==
  /\ hc.pc = "conn_exit"
  /\ t = hc.task
  /\ LeaveScope(t)
  /\ LET a == after_probe(hc, probe_leaves(hc.result, "connectivity", task[t].exc),
                          "pgvector", report)
     IN /\ hc' = a.hc
        /\ report' = a.report

\* check_pgvector_extension up to its first await.
PgvectorEnter(t) ==
  /\ hc.pc = "pgvector"
  /\ EnterScope(t, hc.mgr)
  /\ hc' = [hc EXCEPT !.pc = "pg_catalog", !.task = t, !.result = new_result]
  /\ UNCHANGED report

PgvectorAcquireFails(x) ==
  /\ hc.pc = "pgvector"
  /\ LET h == [hc EXCEPT !.executed = Append(@, [query |-> "get_session", outcome |-> x])]
         a == after_probe(h, probe_leaves(new_result, "pgvector_extension", x), "pool", report)
     IN /\ hc' = a.hc
        /\ report' = a.report
  /\ UNCHANGED <<database_engine, managers, engines, factories, sessions, task, last>>

\* `await session.execute(extension_query)` ends with out: a row, no row, or
\* an exception.  With a row the body goes on to the distance query.
PgvectorCatalog(t, out) ==
  /\ hc.pc = "pg_catalog"
  /\ t = hc.task
  /\ IF out \in {"row", "no_row"}
     THEN /\ hc' = [hc EXCEPT !.pc = IF extension_row(out) THEN "pg_distance" ELSE "pg_exit",
                              !.result = catalog_result(@, out),
                              !.executed = Append(@, [query |-> "pg_extension", outcome |-> out])]
          /\ IF extension_row(out)
             THEN UNCHANGED <<database_engine, managers, engines, factories, sessions, task, last>>
             ELSE BodyEnds(t, "normal")
     ELSE /\ hc' = [hc EXCEPT !.pc = "pg_exit",
                              !.executed = Append(@, [query |-> "pg_extension", outcome |-> out])]
          /\ BodyEnds(t, out)
  /\ UNCHANGED report

\* `await session.execute(vector_test_query)` ends with out.
PgvectorDistance(t, out) ==
  /\ hc.pc = "pg_distance"
  /\ t = hc.task
  /\ BodyEnds(t, IF out = "ok" THEN "normal" ELSE out)
  /\ hc' = [hc EXCEPT !.pc = "pg_exit",
                      !.result = IF out = "ok" THEN distance_ok(@) ELSE @,
                      !.executed = Append(@, [query |-> "vector_distance", outcome |-> out])]
  /\ UNCHANGED report

PgvectorLeave(t) ==
  /\ hc.pc = "pg_exit"
  /\ t = hc.task
  /\ LeaveScope(t)
  /\ LET a == after_probe(hc, probe_leaves(hc.result, "pgvector_extension", task[t].exc),
                          "pool", report)
     IN /\ hc' = a.hc
        /\ report' = a.report

\* check_pool_status, which awaits nothing: the engine property (which
\* builds the engine if there is none), the counters of its pool read as r
\* or raising, the result; and, in comprehensive_health_check, the combined
\* report right after it.
PoolStatus(raises) ==
  /\ hc.pc = "pool"
  /\ LET g == engine_get(managers, engines, hc.mgr)
     IN /\ Len(g.engines) <= MaxEngines
        /\ managers' = g.managers
        /\ engines' = g.engines
        /\ \E r \in IF raises = "none" THEN PoolReadings(g.engines[g.ret].cfg)
                    ELSE {PoolRaises(raises)} :
             LET q == check_pool_status(r)
             IN report' =
                  IF hc.op = "comprehensive_health_check"
                  THEN Reported(hc.op,
                                comprehensive_report(hc.connectivity_check,
                                                     hc.pgvector_check, q),
                                "none", hc.connectivity_check, hc.pgvector_check, q,
                                hc.executed, r)
                  ELSE Reported(hc.op, q, "none", NoResult, NoResult, q, hc.executed, r)
  /\ hc' = IdleChecker
  /\ UNCHANGED <<database_engine, factories, sessions, task, last>>

(* ---------- the readiness endpoint: the calls ---------- *)
\* check_database_health() is called in context ctx, the environment being
\* e and the store answering the query with out.
CheckDatabaseHealth(ctx, e, out) ==
  /\ \A t \in Tasks : task[t].pc = "idle"
  /\ LET r == check_database_health(ctx, e, out, Heap)
     IN /\ Len(r.heap.managers) <= MaxManagers
        /\ Len(r.heap.engines) <= MaxEngines
        /\ Len(r.heap.sessions) <= MaxSessions
        /\ database_engine' = r.heap.database_engine
        /\ managers' = r.heap.managers
        /\ engines' = r.heap.engines
        /\ factories' = r.heap.factories
        /\ sessions' = r.heap.sessions
        /\ answer' = Answered("check_database_health", ctx, e, EnvNothing, out,
                              [database |-> "own", redis |-> "none"],
                              r.ret, FALSE, r.ran, NoResponse)
  /\ UNCHANGED <<task, last, hvars, evars>>

\* check_redis_health() is called in context ctx, the environment being c.
CheckRedisHealth(ctx, c) ==
  /\ answer' = Answered("check_redis_health", ctx, EnvNothing, c, "none",
                        [database |-> "none", redis |-> "own"],
                        FALSE, check_redis_health(ctx, c), ~ asyncio_run_raises(ctx),
                        NoResponse)
  /\ UNCHANGED <<cvars, hvars, evars>>

\* What the call of a check gives the endpoint, which runs in the event
\* loop: the stand-in's value, or the module's own function called there.
bound_result(bound, own) ==
  CASE bound = "returns_true" -> TRUE
    [] bound = "returns_false" -> FALSE
    [] OTHER -> own

\* GET /ready: readiness_check, a coroutine with no await, calls the two
\* checks and answers.  Its own checks cannot run their coroutine from
\* inside the loop, so they leave the heap as it is.
ReadinessCheck(db_bound, redis_bound, e, c, out) ==
  /\ LET d == check_database_health("loop", e, out, Heap)
         db_healthy == bound_result(db_bound, d.ret)
         redis_healthy == bound_result(redis_bound, check_redis_health("loop", c))
     IN /\ d.heap = Heap
        /\ answer' = Answered("readiness_check", "loop", e, c, out,
                              [database |-> db_bound, redis |-> redis_bound],
                              db_healthy, redis_healthy,
                              db_bound = "own" /\ d.ran,
                              readiness_response(db_healthy, redis_healthy))
  /\ UNCHANGED <<cvars, hvars, evars>>

(* ---------- the specifications ---------- *)
\* The lifecycle of the managers and their engines: every call that touches
\* the global, a manager's references or an engine.  A scope's later steps
\* touch its session only, so they are left to ScopeSpec.
Next ==
  \/ \E t \in Tasks : \E e \in Envs : GetAsyncEngine(t, e) /\ UNCHANGED <<hvars, evars, avars>>
  \/ \E t \in Tasks : \E m \in Managers : EngineProperty(t, m) /\ UNCHANGED <<hvars, evars, avars>>
  \/ \E t \in Tasks : \E m \in Managers : SessionFactoryProperty(t, m) /\ UNCHANGED <<hvars, evars, avars>>
  \/ \E t \in Tasks : \E m \in Managers : Close(t, m) /\ UNCHANGED <<hvars, evars, avars>>
  \/ \E t \in Tasks : CloseDatabaseEngine(t) /\ UNCHANGED <<hvars, evars, avars>>
  \/ \E t \in Tasks : DisposeReturns(t) /\ UNCHANGED <<hvars, evars, avars>>
  \/ \E t \in Tasks : DisposeFails(t) /\ UNCHANGED <<hvars, evars, avars>>

Spec == Init /\ [][Next]_vars

\* The scoped sessions of concurrent tasks.
ScopeNext ==
  \/ \E t \in Tasks : \E e \in Envs : GetAsyncEngine(t, e) /\ UNCHANGED <<hvars, evars, avars>>
  \/ \E t \in Tasks : \E m \in Managers : EnterScope(t, m) /\ UNCHANGED <<hvars, evars, avars>>
  \/ \E t \in Tasks : \E how \in BodyOutcomes : BodyEnds(t, how) /\ UNCHANGED <<hvars, evars, avars>>
  \/ \E t \in Tasks : Rollback(t) /\ UNCHANGED <<hvars, evars, avars>>
  \/ \E t \in Tasks : SessionAExit(t) /\ UNCHANGED <<hvars, evars, avars>>
  \/ \E t \in Tasks : LeaveScope(t) /\ UNCHANGED <<hvars, evars, avars>>

ScopeSpec == Init /\ [][ScopeNext]_vars

\* The health checker, on the managers get_async_engine has built.
HealthNext ==
  \/ \E t \in Tasks : \E e \in Envs : GetAsyncEngine(t, e) /\ UNCHANGED <<hvars, evars, avars>>
  \/ \E m \in Managers : \E op \in HealthOps : StartHealthCheck(m, op) /\ UNCHANGED <<evars, avars>>
  \/ \E t \in Tasks : ConnectivityEnter(t) /\ UNCHANGED <<evars, avars>>
  \/ \E x \in ExceptionSubclasses : ConnectivityAcquireFails(x) /\ UNCHANGED <<evars, avars>>
  \/ \E t \in Tasks : \E out \in QueryOutcomes : ConnectivityExecute(t, out) /\ UNCHANGED <<evars, avars>>
  \/ \E t \in Tasks : Rollback(t) /\ UNCHANGED <<hvars, evars, avars>>
  \/ \E t \in Tasks : SessionAExit(t) /\ UNCHANGED <<hvars, evars, avars>>
  \/ \E t \in Tasks : ConnectivityLeave(t) /\ UNCHANGED <<evars, avars>>
  \/ \E t \in Tasks : PgvectorEnter(t) /\ UNCHANGED <<evars, avars>>
  \/ \E x \in ExceptionSubclasses : PgvectorAcquireFails(x) /\ UNCHANGED <<evars, avars>>
  \/ \E t \in Tasks : \E out \in {"row", "no_row"} \cup (QueryOutcomes \ {"ok"}) : PgvectorCatalog(t, out) /\ UNCHANGED <<evars, avars>>
  \/ \E t \in Tasks : \E out \in QueryOutcomes : PgvectorDistance(t, out) /\ UNCHANGED <<evars, avars>>
  \/ \E t \in Tasks : PgvectorLeave(t) /\ UNCHANGED <<evars, avars>>
  \/ \E raises \in {"none"} \cup ExceptionSubclasses : PoolStatus(raises) /\ UNCHANGED <<evars, avars>>

HealthSpec == Init /\ [][HealthNext]_vars

\* The entities: constructions and assignments, in any order.
EntityNext ==
  \/ \E cls \in Classes : \E kw \in Kwargs(cls) : Construct(cls, kw)
  \/ \E field \in {"url", "status", "job_type", "content", "embedding"} :
       \E value \in Inputs("any", field) : Assign(field, value)
  \/ Discard

EntitySpec == Init /\ [][EntityNext]_vars

\* The readiness endpoint and its two checks, called in any order.
ApiNext ==
  \/ \E ctx \in Contexts : \E e \in Envs : \E out \in StoreOutcomes : CheckDatabaseHealth(ctx, e, out)
  \/ \E ctx \in Contexts : \E c \in CacheEnvs : CheckRedisHealth(ctx, c)
  \/ \E db_bound, redis_bound \in Bindings : \E e \in Envs : \E c \in CacheEnvs : \E out \in StoreOutcomes : ReadinessCheck(db_bound, redis_bound, e, c, out)

ApiSpec == Init /\ [][ApiNext]_vars

(* ====================== the scoped session: C1 to C4 ====================== *)
Sessions == 1..Len(sessions)

Count(log, ev) == Cardinality({i \in DOMAIN log : log[i] = ev})

\* The scope of session s has ended: control is back in the caller.
Exited(s) == sessions[s].reached # "pending"

IsPrefix(a, b) == Len(a) <= Len(b) /\ \A i \in 1..Len(a) : a[i] = b[i]

\* C1: every session handed out by get_session is closed exactly once when
\* its scope ends, however the scope ends (normal completion, early return,
\* a raised failure, cancellation); no session is closed twice, and no
\* session whose scope has ended is still open.
C1_ReleasedExactlyOnce ==
  \A s \in Sessions :
    /\ Count(sessions[s].log, "close") <= 1
    /\ Exited(s) => Count(sessions[s].log, "close") = 1

\* Two scopes have ended, one by an early return and one by a failure.
C1_Witness ==
  \E s1, s2 \in Sessions :
    /\ Exited(s1) /\ sessions[s1].outcome = "return"
    /\ Exited(s2) /\ sessions[s2].outcome \in ExceptionSubclasses
    /\ Count(sessions[s1].log, "close") = 1
    /\ Count(sessions[s2].log, "close") = 1

C3_RollbackThenReleaseThenPropagate ==
  \A s \in Sessions :
    sessions[s].outcome \in ExceptionSubclasses =>
      /\ IsPrefix(sessions[s].log, <<"rollback", "close", "exit">>)
      /\ Exited(s) => sessions[s].log = <<"rollback", "close", "exit">>

\* The session of a failed scope is rolled back and closed, and the failure
\* is still on its way to the caller.
C3_Witness ==
  \E t \in Tasks :
    /\ task[t].pc = "leave"
    /\ task[t].exc \in ExceptionSubclasses
    /\ sessions[task[t].ses].log = <<"rollback", "close">>

\* C4: when the task is cancelled while its session is in scope, the manager
\* rolls the session back and closes it, as for any other failure.
C4_CancelledScopeRollsBack ==
  \A s \in Sessions :
    (Exited(s) /\ sessions[s].outcome = "CancelledError") =>
      /\ Count(sessions[s].log, "rollback") = 1
      /\ Count(sessions[s].log, "close") = 1

(* ============== lazy construction and shutdown: C5 to C10 ============== *)
Engines == 1..Len(engines)
Factories == 1..Len(factories)

\* The steps of a close(): dispose() is called as the call suspends, and
\* the call returns or raises when dispose() does.
Suspends(t) == task[t].pc = "idle" /\ task'[t].pc = "dispose"

Resumes(t) == task[t].pc = "dispose" /\ task'[t].pc = "idle"

\* A call returns in this step without having suspended.
ReturnsAtOnce(op) == last' # last /\ last'.op = op /\ \A t \in Tasks : ~ Resumes(t)

\* The last call that returned was `op`, and it returned normally.
Ok(op) == last.op = op /\ last.raised = "none"

\* C5: a DatabaseEngine has no pooled engine (and no factory) before the
\* first access; an access of `engine` that finds none constructs exactly
\* one, from the stored configuration; an access that finds one (no close()
\* since it was built) returns that same instance and constructs nothing.
\* The same holds for `session_factory`, whose factory is bound to the
\* manager's engine.
C5_State ==
  /\ (Ok("get_async_engine") /\ last.before.database_engine = None) =>
       /\ managers[last.ret].engine = None
       /\ managers[last.ret].session_factory = None
       /\ \A e \in Engines : engines[e].owner # last.ret
  /\ (Ok("engine") /\ last.before.engine = None) =>
       /\ Len(engines) = last.before.nEngines + 1
       /\ last.ret = Len(engines)
       /\ managers[last.mgr].engine = last.ret
       /\ engines[last.ret].cfg = Config(managers[last.mgr])
  /\ (Ok("engine") /\ last.before.engine # None) =>
       /\ last.ret = last.before.engine
       /\ managers[last.mgr].engine = last.ret
       /\ Len(engines) = last.before.nEngines
  /\ (Ok("session_factory") /\ last.before.session_factory = None) =>
       /\ Len(factories) = last.before.nFactories + 1
       /\ last.ret = Len(factories)
       /\ managers[last.mgr].session_factory = last.ret
       /\ factories[last.ret].bind = managers[last.mgr].engine
       /\ Len(engines) = last.before.nEngines
                         + (IF last.before.engine = None THEN 1 ELSE 0)
  /\ (Ok("session_factory") /\ last.before.session_factory # None) =>
       /\ last.ret = last.before.session_factory
       /\ Len(factories) = last.before.nFactories
       /\ Len(engines) = last.before.nEngines

\* Between accesses, only a close() that completes takes an engine or a
\* factory away from its manager.
C5_Step ==
  \A m \in Managers :
    /\ (managers[m].engine # None /\ managers'[m].engine # managers[m].engine) =>
         \E t \in Tasks : Resumes(t) /\ task[t].closing = m /\ last'.raised = "none"
    /\ (managers[m].session_factory # None
          /\ managers'[m].session_factory # managers[m].session_factory) =>
         \E t \in Tasks : Resumes(t) /\ task[t].closing = m /\ last'.raised = "none"

C5_LazySingleEngine == [] C5_State /\ [][C5_Step]_vars

\* A later access: the engine was there and is returned again.
C5_Witness ==
  /\ Ok("engine")
  /\ last.before.engine # None
  /\ last.ret = last.before.engine
  /\ engines[last.ret].disposals = 0

\* The configurations the two complete environments describe.
ConfigA ==
  [ database_url |-> <<"a">>, pool_size |-> 10, max_overflow |-> 20,
    pool_timeout |-> 30, pool_recycle |-> 3600, pool_pre_ping |-> TRUE,
    echo |-> FALSE ]

ConfigB ==
  [ database_url |-> <<"b">>, pool_size |-> 15, max_overflow |-> 20,
    pool_timeout |-> 30, pool_recycle |-> 3600, pool_pre_ping |-> TRUE,
    echo |-> TRUE ]

\* C6: get_async_engine returns the process-wide instance, the same one on
\* every call for as long as no close_database_engine has unset it; a call
\* that finds the global unset (at first, or after a completed
\* close_database_engine) constructs a new instance from the environment as
\* it is at that call.
C6_State ==
  /\ \A m \in Managers : ~ managers[m].released => database_engine = m
  /\ Ok("get_async_engine") =>
       /\ last.ret = database_engine
       /\ last.before.database_engine # None =>
            /\ last.ret = last.before.database_engine
            /\ Len(managers) = last.before.nManagers
       /\ last.before.database_engine = None =>
            /\ last.ret = last.before.nManagers + 1
            /\ Len(managers) = last.ret
            /\ last.env = EnvUrlA => Config(managers[last.ret]) = ConfigA
            /\ last.env = EnvUrlB => Config(managers[last.ret]) = ConfigB

\* The global, once set, changes only when a close_database_engine
\* returns normally, and then to unset.
C6_Step ==
  (database_engine # None /\ database_engine' # database_engine) =>
    /\ database_engine' = None
    /\ last'.op = "close_database_engine"
    /\ last'.raised = "none"

C6_SingletonUntilClosed == [] C6_State /\ [][C6_Step]_vars

\* Re-acquired after a shutdown, under another configuration.
C6_Witness ==
  /\ Ok("get_async_engine")
  /\ last.ret = 2
  /\ managers[1].released
  /\ Config(managers[1]) = ConfigA
  /\ Config(managers[2]) = ConfigB

\* C7: under every interleaving of callers (each property and
\* get_async_engine runs without suspending, so concurrent callers run one
\* after the other), one lazy initialization constructs one instance: every
\* engine no close() has dropped is its manager's current engine, every
\* factory on such an engine is its manager's current factory, every manager
\* not released is the global, and each caller gets the current instance.
C7_OneInstancePerInitialization ==
  /\ \A e \in Engines :
       ~ engines[e].dropped => managers[engines[e].owner].engine = e
  /\ \A f \in Factories :
       ~ engines[factories[f].bind].dropped =>
         managers[factories[f].owner].session_factory = f
  /\ \A m1, m2 \in Managers :
       (~ managers[m1].released /\ ~ managers[m2].released) => m1 = m2
  /\ Ok("engine") => last.ret = managers[last.mgr].engine
  /\ Ok("session_factory") => last.ret = managers[last.mgr].session_factory
  /\ Ok("get_async_engine") => last.ret = database_engine

\* While another task is suspended in a call, a caller that initializes the
\* factory finds and uses the engine an earlier caller initialized.
C7_Witness ==
  /\ \E t \in Tasks : task[t].pc = "dispose"
  /\ Ok("session_factory")
  /\ last.before.session_factory = None
  /\ last.before.engine # None
  /\ factories[last.ret].bind = last.before.engine
  /\ Len(engines) = last.before.nEngines

DisposalsUnchanged ==
  /\ Len(engines') = Len(engines)
  /\ \A e \in Engines : engines'[e].disposals = engines[e].disposals

C8_State ==
  /\ Ok("engine") => ~ engines[last.ret].dropped
  /\ Ok("session_factory") => ~ engines[factories[last.ret].bind].dropped

C8_Step ==
  \A t \in Tasks :
    /\ Suspends(t) =>
         /\ task'[t].target = managers[task'[t].closing].engine
         /\ task'[t].target # None
         /\ \A e \in Engines :
              engines'[e].disposals =
                engines[e].disposals + (IF e = task'[t].target THEN 1 ELSE 0)
    /\ (Resumes(t) /\ last'.raised = "none") =>
         /\ managers'[task[t].closing].engine = None
         /\ managers'[task[t].closing].session_factory = None
         /\ DisposalsUnchanged

\* C8: a close() that finds an engine calls dispose() on it exactly once (as
\* the call starts, and not again when it returns) and, when dispose()
\* returns, leaves the engine and the session factory unset; an access after
\* that never gets an engine, or a factory on an engine, that a close() has
\* dropped: a new one is constructed.
C8_CloseDisposesAndResets == [] C8_State /\ [][C8_Step]_vars

\* After a close() the engine is accessed again: a second engine is built,
\* and the first was disposed once.
C8_Witness ==
  /\ Ok("engine")
  /\ last.before.engine = None
  /\ last.ret = 2
  /\ engines[1].owner = last.mgr
  /\ engines[1].dropped
  /\ engines[1].disposals = 1

Untouched == UNCHANGED <<database_engine, managers, engines, factories, sessions, task>>

C9_Step ==
  /\ (ReturnsAtOnce("close") /\ managers[last'.mgr].engine = None) =>
       /\ last'.raised = "none"
       /\ Untouched
  /\ (ReturnsAtOnce("close_database_engine") /\ database_engine = None) =>
       /\ last'.raised = "none"
       /\ Untouched
  /\ \A e \in Engines :
       engines[e].dropped => engines'[e].disposals = engines[e].disposals

\* C9: shutdown is idempotent.  A close() on a manager that has no engine
\* (never initialized, or already closed) and a close_database_engine() with
\* no global call no dispose(), change nothing and raise nothing; an engine
\* that a completed close() has dropped is never disposed again, so a second
\* shutdown in succession adds no dispose.
C9_ShutdownIdempotent == [][C9_Step]_vars

\* A manager that was closed is closed again: nothing raised, and its engine
\* has been disposed once.
C9_Witness ==
  /\ Ok("close")
  /\ last.target = None
  /\ last.before.engine = None
  /\ \E e \in Engines :
       /\ engines[e].owner = last.mgr
       /\ engines[e].dropped
       /\ engines[e].disposals = 1
  /\ \A t \in Tasks : task[t].pc = "idle"

AddressMissing(e) == "DATABASE_URL" \notin DOMAIN e \/ e["DATABASE_URL"] = <<>>

\* C10: with no global, a get_async_engine that finds DATABASE_URL unset or
\* empty raises the configuration error (RuntimeError), constructs nothing
\* and leaves the global unset; with the address present and well-formed
\* numbers it succeeds, whatever failed before; with a global it returns the
\* global whatever the environment holds.
C10_MissingAddressFailsCleanly ==
  last.op = "get_async_engine" =>
    /\ (last.before.database_engine = None /\ AddressMissing(last.env)) =>
         /\ last.raised = "RuntimeError"
         /\ Len(managers) = last.before.nManagers
         /\ database_engine = None
    /\ (last.before.database_engine = None /\ last.env \in {EnvUrlA, EnvUrlB}) =>
         /\ last.raised = "none"
         /\ database_engine = last.ret
         /\ last.ret = last.before.nManagers + 1
    /\ last.before.database_engine # None =>
         /\ last.raised = "none"
         /\ last.ret = last.before.database_engine
         /\ Len(managers) = last.before.nManagers

\* With the global unset after a shutdown, a call that finds the address
\* empty has failed and left the global unset.
C10_Witness ==
  /\ last.op = "get_async_engine"
  /\ last.env = EnvEmptyUrl
  /\ last.raised = "RuntimeError"
  /\ database_engine = None
  /\ \E m \in Managers : managers[m].released

(* ================== the health checker: C11 to C16 ================== *)
\* comprehensive_health_check has returned a report.
Composite == report.op = "comprehensive_health_check" /\ report.raised = "none"

Unhealthy(result) == result.status = "unhealthy"

Healthy(result) == result.status = "healthy"

\* C11: for every combination of the three probes' results,
\* comprehensive_health_check reports 'unhealthy' if at least one of the
\* connectivity, extension and pool probes is unhealthy, and 'healthy'
\* exactly when all three are healthy.
C11_UnhealthyIfAnyProbeIs ==
  Composite =>
    /\ {report.connectivity_check.status, report.pgvector_check.status,
        report.pool_check.status, report.ret.status} \subseteq {"healthy", "unhealthy"}
    /\ ( \/ Unhealthy(report.connectivity_check)
         \/ Unhealthy(report.pgvector_check)
         \/ Unhealthy(report.pool_check) ) => Unhealthy(report.ret)
    /\ Healthy(report.ret) <=>
         ( /\ Healthy(report.connectivity_check)
           /\ Healthy(report.pgvector_check)
           /\ Healthy(report.pool_check) )

\* Only the pool probe is unhealthy, and the composite is.
C11_Witness ==
  /\ Composite
  /\ Healthy(report.connectivity_check)
  /\ Healthy(report.pgvector_check)
  /\ Unhealthy(report.pool_check)
  /\ Unhealthy(report.ret)

\* C12: in every report of comprehensive_health_check the top-level status
\* is 'healthy' if and only if every sub-check present in `checks` is
\* healthy: no unhealthy sub-check under a healthy verdict, and an unhealthy
\* verdict carries at least one unhealthy sub-check.
C12_VerdictMatchesSubChecks ==
  Composite =>
    /\ Healthy(report.ret) <=>
         \A k \in DOMAIN report.ret.checks : report.ret.checks[k].status = "healthy"
    /\ Unhealthy(report.ret) <=>
         \E k \in DOMAIN report.ret.checks : report.ret.checks[k].status = "unhealthy"

\* The distance query failed after the extension was found: an unhealthy
\* verdict with one unhealthy sub-check among healthy ones.
C12_Witness ==
  /\ Composite
  /\ Unhealthy(report.ret)
  /\ report.ret.checks["connectivity"].status = "healthy"
  /\ report.ret.checks["connection_pool"].status = "healthy"
  /\ report.ret.checks["pgvector_extension"].status = "unhealthy"
  /\ \E i \in 1..Len(report.executed) :
       /\ report.executed[i].query = "vector_distance"
       /\ report.executed[i].outcome = "SQLAlchemyError"

\* The steps of the log that ended with an exception (a subclass of
\* Exception: a store error or an unexpected one), by what they belong to.
FailedIn(log, queries) ==
  \E i \in 1..Len(log) :
    log[i].query \in queries /\ log[i].outcome \in ExceptionSubclasses

\* The entry `name` of the returned report is there and unhealthy.
EntryUnhealthy(name) ==
  /\ name \in DOMAIN report.ret.checks
  /\ report.ret.checks[name].status = "unhealthy"

\* C13: a store-specific or unexpected failure (an Exception) of session
\* acquisition, of a query or of the reading of the pool counters never
\* leaves a probe or comprehensive_health_check: the call returns a report,
\* in which the failing probe and its sub-check are unhealthy.
C13_ProbeFailuresContained ==
  /\ report.raised \notin ExceptionSubclasses
  /\ (report.op \in {"check_basic_connectivity", "comprehensive_health_check"}
        /\ report.raised = "none"
        /\ FailedIn(report.executed, {"select_1"})) =>
       Unhealthy(report.connectivity_check) /\ Unhealthy(report.ret)
         /\ EntryUnhealthy("connectivity")
  /\ (report.op \in {"check_pgvector_extension", "comprehensive_health_check"}
        /\ report.raised = "none"
        /\ FailedIn(report.executed, {"pg_extension", "vector_distance"})) =>
       Unhealthy(report.pgvector_check) /\ Unhealthy(report.ret)
         /\ EntryUnhealthy("pgvector_extension")
  /\ (report.op # "none" /\ report.raised = "none"
        /\ FailedIn(report.executed, {"get_session"})) =>
       Unhealthy(report.ret)
         /\ (EntryUnhealthy("connectivity") \/ EntryUnhealthy("pgvector_extension"))
  /\ (report.op \in {"check_pool_status", "comprehensive_health_check"}
        /\ report.raised = "none"
        /\ report.reading.outcome \in ExceptionSubclasses) =>
       Unhealthy(report.pool_check) /\ Unhealthy(report.ret)
         /\ EntryUnhealthy("connection_pool")

\* An unexpected error of the connectivity query, reported and not raised.
C13_Witness ==
  /\ Composite
  /\ report.executed[1] = [query |-> "select_1", outcome |-> "RuntimeError"]
  /\ EntryUnhealthy("connectivity")
  /\ report.ret.checks["connectivity"].message = <<"Unexpected", "error:", "RuntimeError">>

\* In a log, a distance query comes only after a catalog query that found
\* the extension.
DistanceOnlyAfterRow(log) ==
  \A i \in 1..Len(log) :
    log[i].query = "vector_distance" =>
      \E j \in 1..(i - 1) : log[j] = [query |-> "pg_extension", outcome |-> "row"]

Ran(log, query, outcome) ==
  \E i \in 1..Len(log) : log[i] = [query |-> query, outcome |-> outcome]

\* C14: the extension probe runs the distance query only after the catalog
\* query has found the extension.  Extension absent: the probe is unhealthy,
\* pgvector_extension is unhealthy with a message containing 'not
\* installed', and no distance query has run.  Extension present and the
\* distance query succeeds: pgvector_extension and vector_operations are
\* healthy and so is the probe.
C14_DistanceOnlyIfExtensionFound ==
  /\ DistanceOnlyAfterRow(hc.executed)
  /\ DistanceOnlyAfterRow(report.executed)
  /\ (report.op \in {"check_pgvector_extension", "comprehensive_health_check"}
        /\ report.raised = "none") =>
       /\ Ran(report.executed, "pg_extension", "no_row") =>
            /\ Unhealthy(report.pgvector_check)
            /\ report.pgvector_check.checks["pgvector_extension"].status = "unhealthy"
            /\ Contains(report.pgvector_check.checks["pgvector_extension"].message,
                        <<"not", "installed">>)
            /\ \A i \in 1..Len(report.executed) :
                 report.executed[i].query # "vector_distance"
       /\ ( Ran(report.executed, "pg_extension", "row")
            /\ Ran(report.executed, "vector_distance", "ok") ) =>
            /\ Healthy(report.pgvector_check)
            /\ report.pgvector_check.checks["pgvector_extension"].status = "healthy"
            /\ report.pgvector_check.checks["vector_operations"].status = "healthy"

\* The probe, called on its own, has found no extension.
C14_Witness ==
  /\ report.op = "check_pgvector_extension"
  /\ report.raised = "none"
  /\ report.executed = << [query |-> "pg_extension", outcome |-> "no_row"] >>
  /\ Unhealthy(report.ret)
  /\ sessions[Len(sessions)].log = <<"close", "exit">>

\* The names of the sub-checks.
CheckNames == {"connectivity", "pgvector_extension", "vector_operations", "connection_pool"}

\* The statement of C15 as it was made: every composite report has an entry
\* for each of the four named sub-checks.
C15_AllFourEntriesPresent ==
  Composite => CheckNames \subseteq DOMAIN report.ret.checks

\* The probes' own dicts.
ProbeChecks ==
  << report.connectivity_check.checks, report.pgvector_check.checks,
     report.pool_check.checks >>

\* C15, amended: every composite report contains the entries connectivity,
\* pgvector_extension and connection_pool, and the entry vector_operations
\* exactly when the extension was found and the distance query succeeded;
\* each entry carries its own status and is the entry of the one probe that
\* recorded it, merged into one flat mapping in which no probe's entry
\* overwrites another's.
C15_EntriesMergedFlat ==
  Composite =>
    /\ {"connectivity", "pgvector_extension", "connection_pool"}
         \subseteq DOMAIN report.ret.checks
    /\ DOMAIN report.ret.checks \subseteq CheckNames
    /\ "vector_operations" \in DOMAIN report.ret.checks <=>
         ( Ran(report.executed, "pg_extension", "row")
           /\ Ran(report.executed, "vector_distance", "ok") )
    /\ \A k \in DOMAIN report.ret.checks :
         report.ret.checks[k].status \in {"healthy", "unhealthy"}
    /\ \A i \in 1..3 : \A k \in DOMAIN ProbeChecks[i] :
         /\ report.ret.checks[k] = ProbeChecks[i][k]
         /\ \A j \in 1..3 : j # i => k \notin DOMAIN ProbeChecks[j]
    /\ DOMAIN report.ret.checks =
         DOMAIN ProbeChecks[1] \cup DOMAIN ProbeChecks[2] \cup DOMAIN ProbeChecks[3]

\* A composite report of an installation without the extension: three
\* entries, none for vector_operations.
C15_Witness ==
  /\ Composite
  /\ Ran(report.executed, "pg_extension", "no_row")
  /\ DOMAIN report.ret.checks = {"connectivity", "pgvector_extension", "connection_pool"}
  /\ report.ret.checks["connectivity"].status = "healthy"
  /\ report.ret.checks["connection_pool"].status = "healthy"

\* The pool probe has returned (on its own or in the composite check).
PoolProbed ==
  /\ report.op \in {"check_pool_status", "comprehensive_health_check"}
  /\ report.raised = "none"

\* C16: whatever counters are read without error, a saturated pool
\* included, the pool probe is healthy and reports pool_size, checked_in,
\* checked_out and overflow as read, with total_connections = pool_size +
\* overflow; it is unhealthy only when reading the counters raised.
C16_PoolReportsWhatItReads ==
  PoolProbed =>
    /\ report.reading.outcome = "read" =>
         /\ Healthy(report.pool_check)
         /\ LET entry == report.pool_check.checks["connection_pool"]
            IN /\ entry.status = "healthy"
               /\ entry.pool_size = report.reading.size
               /\ entry.checked_in = report.reading.checkedin
               /\ entry.checked_out = report.reading.checkedout
               /\ entry.overflow = report.reading.overflow
               /\ entry.total_connections = entry.pool_size + entry.overflow
    /\ Unhealthy(report.pool_check) => report.reading.outcome \in ExceptionSubclasses
    /\ report.op = "check_pool_status" => report.ret = report.pool_check

\* A saturated pool of the default configuration: 10 connections and 20
\* overflow connections, all checked out; the probe is healthy.
C16_Witness ==
  /\ PoolProbed
  /\ report.reading =
       [ outcome |-> "read", size |-> 10, checkedin |-> 0, checkedout |-> 30,
         overflow |-> 20 ]
  /\ Healthy(report.pool_check)
  /\ report.pool_check.checks["connection_pool"].total_connections = 30

(* ====================== the entities: C17 to C20 ====================== *)
\* The last call gave `field` a value (as a keyword of the constructor, or
\* by assignment).
Gave(field) == field \in Given(assigned.args)

\* The last call was on class cls and gave `field` the value it names.
GaveTo(cls, field) == assigned.cls = cls /\ Gave(field)

\* The last call has stored what it was given: it did not raise.
Accepted == assigned.raised = "none"

\* The messages of the errors about a field.
Messages(field) ==
  CASE field = "url" -> { "URL cannot be empty", "Invalid GitHub URL format",
                          "URL must be a GitHub repository" }
    [] field = "status" -> {"Status must be one of"}
    [] field = "job_type" -> {"Job type must be one of"}
    [] field = "content" -> {"Content cannot be empty"}
    [] OTHER -> { "Embedding must be a list of floats",
                  "Embedding must be exactly 1536 dimensions",
                  "All embedding values must be numbers" }

\* The last call gave `field` of a cls a value and ended on it: with the
\* value stored, or with an error about this field (not with an error about
\* another keyword of the same construction).
Decided(cls, field) ==
  /\ GaveTo(cls, field)
  /\ assigned.raised \in {"none"} \cup Messages(field)

\* A field of the entity that has been given a value.
Holds(cls, field) == entity.cls = cls /\ entity.fields[field] # Omitted

IsMemberOf(value, enum, values) == value.type = enum /\ value.value \in values

\* What the claim expects of a value given to a field of enumeration enum:
\* the member of a valid raw string, a member as it is, nothing else.
EnumExpectation(cls, field, enum, values) ==
  Decided(cls, field) =>
    LET v == assigned.args[field]
    IN /\ (v.type = "str" /\ v.value \in values) =>
            Accepted /\ entity.fields[field] = Member(enum, v.value)
       /\ IsMemberOf(v, enum, values) => Accepted /\ entity.fields[field] = v
       /\ ~ (v.type = "str" /\ v.value \in values) /\ ~ IsMemberOf(v, enum, values) =>
            ~ Accepted

\* C17: after any sequence of constructions and assignments,
\* Repository.status, Job.status and Job.job_type each hold a member of
\* their own enumeration: a valid raw string is coerced to the member, a
\* member is accepted as is, and any other value, whatever its type, is
\* rejected at the point of assignment.
C17_StatusHoldsEnumMember ==
  /\ Holds("Repository", "status") =>
       IsMemberOf(entity.fields["status"], "RepositoryStatus", RepositoryStatus)
  /\ Holds("Job", "status") =>
       IsMemberOf(entity.fields["status"], "JobStatus", JobStatus)
  /\ Holds("Job", "job_type") =>
       IsMemberOf(entity.fields["job_type"], "JobType", JobType)
  /\ EnumExpectation("Repository", "status", "RepositoryStatus", RepositoryStatus)
  /\ EnumExpectation("Job", "status", "JobStatus", JobStatus)
  /\ EnumExpectation("Job", "job_type", "JobType", JobType)

EmbeddingExpectation(v) ==
  CASE v = List(<< [n |-> 1536, x |-> "float"] >>) -> "none"
    [] v = List(<< [n |-> 1536, x |-> "int"] >>) -> "none"
    [] v = List(<< [n |-> 1535, x |-> "float"], [n |-> 1, x |-> "bool"] >>) -> "none"
    [] v = List(<< [n |-> 1535, x |-> "float"], [n |-> 1, x |-> "str"] >>) ->
         "All embedding values must be numbers"
    [] v.type = "list" -> "Embedding must be exactly 1536 dimensions"
    [] OTHER -> "Embedding must be a list of floats"

Blank(v) == v.type = "NoneType" \/ (v.type = "str" /\ \A i \in 1..Len(v.chars) : v.chars[i] \in Whitespace)

\* C19: no Document and no VectorDocument can be constructed with, or later
\* assigned, a content that is absent, empty or whitespace-only: each such
\* assignment fails at the point of assignment, so every entity's content
\* is non-empty after trimming.
C19_ContentNeverBlank ==
  /\ \A cls \in {"Document", "VectorDocument"} :
       /\ (GaveTo(cls, "content") /\ Blank(assigned.args["content"])) => ~ Accepted
       /\ Holds(cls, "content") => ~ Blank(entity.fields["content"])

\* The host of a URL: what stands between "://" and the next "/", "?" or
\* "#", in lower case.
AfterScheme(s) ==
  IF StartsWith(s, Https) THEN SubSeq(s, Len(Https) + 1, Len(s))
  ELSE IF StartsWith(s, Http) THEN SubSeq(s, Len(Http) + 1, Len(s))
  ELSE <<>>

Host(s) ==
  LET rest == AfterScheme(s)
      stops == {i \in 1..Len(rest) : rest[i] \in {"/", "?", "#"}}
      end == IF stops = {} THEN Len(rest)
             ELSE (CHOOSE i \in stops : \A j \in stops : i <= j) - 1
  IN lower(SubSeq(rest, 1, end))

\* A well-formed http(s) URL: the scheme, a host, no whitespace.
WellFormedHttpUrl(s) ==
  /\ StartsWith(s, Http) \/ StartsWith(s, Https)
  /\ Host(s) # <<>>
  /\ \A i \in 1..Len(s) : s[i] \notin Whitespace

\* C20: Repository.url is accepted if and only if it is a well-formed
\* http(s) URL whose host is github.com; an empty value, a malformed value
\* and a well-formed URL with any other host are rejected at assignment.
C20_UrlHostIsGithub ==
  Decided("Repository", "url") =>
    LET v == assigned.args["url"]
    IN Accepted
       <=> ( /\ v.type = "str"
             /\ WellFormedHttpUrl(v.chars)
             /\ Host(v.chars) = GithubCom )

(* ================= status transitions: C21 ================= *)
\* The member a status value names: the value of a member, or of a raw
\* string that is the value of one; "none" for anything else.
Names(v, enum, values) ==
  IF v.type = "str" /\ v.value \in values THEN v.value
  ELSE IF IsMemberOf(v, enum, values) THEN v.value
  ELSE "none"

\* The last call assigned a status naming a member of enum to a cls whose
\* status was a member of enum.
Transition(cls, enum, values) ==
  /\ assigned.op = "assign"
  /\ GaveTo(cls, "status")
  /\ IsMemberOf(assigned.was, enum, values)
  /\ Names(assigned.args["status"], enum, values) # "none"

\* Whatever the status was, the assignment has stored the member named.
Unconstrained(cls, enum, values) ==
  Transition(cls, enum, values) =>
    /\ Accepted
    /\ entity.fields["status"] = Member(enum, Names(assigned.args["status"], enum, values))

\* C21: status assignment is not constrained by the current status: a Job
\* whose status is any member s of JobStatus can be assigned any member t,
\* and a Repository likewise with RepositoryStatus, skipping intermediate
\* states and leaving completed, failed or cancelled included.
C21_AnyStatusAfterAnyStatus ==
  /\ Unconstrained("Job", "JobStatus", JobStatus)
  /\ Unconstrained("Repository", "RepositoryStatus", RepositoryStatus)

\* A cancelled Job is set back to pending.
C21_Witness ==
  /\ Transition("Job", "JobStatus", JobStatus)
  /\ assigned.was = Member("JobStatus", "cancelled")
  /\ entity.fields["status"] = Member("JobStatus", "pending")

(* ============ concurrent shutdown: C24 to C27 ============ *)
\* An engine the manager no longer refers to and that was never disposed:
\* its pool stays open and nothing can reach it through the manager.
Orphaned(e) == engines[e].dropped /\ engines[e].disposals = 0

\* C24: under any interleaving of concurrent close() calls with engine,
\* session_factory and get_session accesses on one DatabaseEngine, every
\* engine that was constructed is disposed before the manager drops its
\* reference to it: close() never resets the reference to an engine other
\* than the one it disposed, so no live pool is orphaned undisposed.
C24_NoEngineDroppedUndisposed == \A e \in Engines : ~ Orphaned(e)

\* A manager that holds a pooled engine.
HoldsPool(m) == managers[m].engine # None

\* C25: under any interleaving of close_database_engine with
\* get_async_engine and session use, at most one DatabaseEngine holding a
\* pooled engine exists in the process: no pool is alive on an instance that
\* get_async_engine no longer returns.
C25_OnePoolOnTheGlobalOnly ==
  /\ Cardinality({m \in Managers : HoldsPool(m)}) <= 1
  /\ \A m \in Managers : HoldsPool(m) => m = database_engine

\* The session factory of m is consistent with its engine: set only with
\* the engine, bound to the engine the manager refers to, and that engine
\* is not one whose dispose() has returned.
FactoryConsistent(m) ==
  managers[m].session_factory # None =>
    /\ managers[m].engine # None
    /\ factories[managers[m].session_factory].bind = managers[m].engine
    /\ ~ engines[managers[m].engine].disposed

\* C26: after any sequence of engine, session_factory, get_session and close
\* operations on a DatabaseEngine, the session factory is set only if the
\* engine is set, and it is bound to the manager's current engine, never to
\* an engine that has already been disposed.
C26_FactoryBoundToCurrentEngine == \A m \in Managers : FactoryConsistent(m)

\* A manager closed once has built a second engine and a factory on it.
C26_Witness ==
  \E m \in Managers :
    /\ managers[m].session_factory # None
    /\ managers[m].engine # None
    /\ \E e \in Engines : e # managers[m].engine /\ engines[e].owner = m /\ engines[e].disposed

\* The step in which a close() or close_database_engine() ends with the
\* failure of dispose().
CloseRaises(t) ==
  /\ Resumes(t)
  /\ last' # last
  /\ last'.op \in {"close", "close_database_engine"}
  /\ last'.raised # "none"

\* What the step that ends a failed close() does and leaves alone.
C27_Step ==
  \A t \in Tasks :
    CloseRaises(t) =>
      /\ last'.raised = "DisposeError"
      /\ last'.mgr = task[t].closing
      /\ managers' = managers
      /\ database_engine' = database_engine
      /\ engines' = engines /\ factories' = factories
      /\ managers[task[t].closing].engine = task[t].target =>
           managers'[task[t].closing].engine # None
      /\ (task[t].global /\ database_engine = task[t].closing) =>
           database_engine' # None

\* C27: if disposing the pooled engine fails during close(), the failure
\* propagates to the caller and the manager's state is unchanged: the engine
\* and session factory references are retained, and close_database_engine
\* likewise leaves the process-wide instance set.
C27_FailedDisposeChangesNothing == [][C27_Step]_vars

\* close_database_engine() has raised the failure of dispose(): the global
\* is set, its engine and session factory are the ones it had.
C27_Witness ==
  /\ last.op = "close_database_engine"
  /\ last.raised = "DisposeError"
  /\ database_engine = last.mgr
  /\ database_engine # None
  /\ managers[database_engine].engine = last.target
  /\ managers[database_engine].session_factory # None

(* ============ the probes, step by step: C28 to C30 ============ *)
\* The extension probe has returned a result after it found the extension
\* and its distance query raised.
DistanceFailed ==
  /\ report.op \in {"check_pgvector_extension", "comprehensive_health_check"}
  /\ report.raised = "none"
  /\ Ran(report.executed, "pg_extension", "row")
  /\ FailedIn(report.executed, {"vector_distance"})

\* C28: when the extension is found but the distance computation that
\* follows fails, the extension probe is unhealthy and its report contains
\* no healthy entry: the pgvector_extension entry recorded as healthy before
\* the failure is replaced by an unhealthy one, and there is no
\* vector_operations entry.
C28_FailedDistanceLeavesNoHealthyEntry ==
  DistanceFailed =>
    LET p == report.pgvector_check
    IN /\ Unhealthy(p)
       /\ DOMAIN p.checks = {"pgvector_extension"}
       /\ p.checks["pgvector_extension"].status = "unhealthy"
       /\ \A k \in DOMAIN p.checks : p.checks[k].status # "healthy"
       /\ report.op = "check_pgvector_extension" => report.ret = p
       /\ report.op = "comprehensive_health_check" =>
            /\ Unhealthy(report.ret)
            /\ "vector_operations" \notin DOMAIN report.ret.checks
            /\ report.ret.checks["pgvector_extension"].status = "unhealthy"

\* The probe, called directly, found the extension and its distance query
\* raised a store error.
C28_Witness ==
  /\ DistanceFailed
  /\ report.op = "check_pgvector_extension"
  /\ Ran(report.executed, "vector_distance", "SQLAlchemyError")
  /\ Unhealthy(report.ret)

\* Where comprehensive_health_check is: in its first, second or third await.
InConnectivity(h) == h.pc \in {"connectivity", "conn_execute", "conn_exit"}
InPgvector(h) == h.pc \in {"pgvector", "pg_catalog", "pg_distance", "pg_exit"}
InPool(h) == h.pc = "pool"

HasResult(result) == result.status \in {"healthy", "unhealthy"}

Comprehensive(h) == h.op = "comprehensive_health_check"

\* While comprehensive_health_check runs: a probe is in progress only with
\* the results of the probes before it in hand and none after it.
C29_State ==
  /\ Comprehensive(hc) =>
       /\ InConnectivity(hc) \/ InPgvector(hc) \/ InPool(hc)
       /\ InConnectivity(hc) => hc.connectivity_check = NoResult /\ hc.pgvector_check = NoResult
       /\ InPgvector(hc) => HasResult(hc.connectivity_check) /\ hc.pgvector_check = NoResult
       /\ InPool(hc) => HasResult(hc.connectivity_check) /\ HasResult(hc.pgvector_check)
  /\ report.op = "comprehensive_health_check" =>
       /\ report.raised \in {"none"} \cup BaseExceptionOnly
       /\ report.raised = "none" =>
            /\ HasResult(report.connectivity_check)
            /\ HasResult(report.pgvector_check)
            /\ HasResult(report.pool_check)
            /\ report.reading.outcome # "none"
            /\ {"connectivity", "pgvector_extension", "connection_pool"}
                 \subseteq DOMAIN report.ret.checks

\* The order: the call starts in the connectivity probe, the extension
\* probe starts in the step in which the connectivity probe returns its
\* result, the pool probe in the step in which the extension probe returns
\* its own, and the report is returned from the pool probe.
C29_Step ==
  /\ (Comprehensive(hc') /\ ~ Comprehensive(hc)) => hc'.pc = "connectivity"
  /\ (Comprehensive(hc) /\ Comprehensive(hc')) =>
       /\ (InPgvector(hc') /\ ~ InPgvector(hc)) =>
            InConnectivity(hc) /\ hc'.pc = "pgvector" /\ HasResult(hc'.connectivity_check)
       /\ (InPool(hc') /\ ~ InPool(hc)) =>
            InPgvector(hc) /\ HasResult(hc'.pgvector_check)
       /\ ~ (InConnectivity(hc') /\ ~ InConnectivity(hc))
  /\ (Comprehensive(hc) /\ ~ Comprehensive(hc')) =>
       /\ report'.op = "comprehensive_health_check"
       /\ InPool(hc) \/ report'.raised \in BaseExceptionOnly
       /\ InPool(hc) => report'.raised = "none"

\* C29: comprehensive_health_check always runs all three probes, one after
\* another in the order connectivity, extension, pool, each starting only
\* after the previous one has returned; an unhealthy earlier probe never
\* prevents a later probe from running and from appearing in the report.
C29_AllProbesInOrder == [] C29_State /\ [][C29_Step]_vars

\* Connectivity and extension probes were unhealthy, and the pool probe ran
\* and is in the report.
C29_Witness ==
  /\ Composite
  /\ Unhealthy(report.connectivity_check)
  /\ Unhealthy(report.pgvector_check)
  /\ Healthy(report.pool_check)
  /\ report.reading.outcome = "read"
  /\ report.ret.checks["connection_pool"].status = "healthy"

\* A session that has been handed out and is not closed yet.
Held(s) == Count(sessions[s].log, "close") = 0

\* The checker is outside every scope: idle, or between two awaits.
OutsideScopes(h) == h.pc \in {"idle", "connectivity", "pgvector", "pool"}

\* C30: each probe that opens a scoped session has released it, with the
\* rollback issued first when the probe's query failed, before the probe
\* returns its result; during comprehensive_health_check the checker never
\* holds more than one session at a time, and holds none once the report is
\* returned.
C30_ProbeSessionsReleased ==
  /\ Cardinality({s \in Sessions : Held(s)}) <= 1
  /\ OutsideScopes(hc) => \A s \in Sessions : ~ Held(s) /\ Exited(s)
  /\ report.op # "none" => \A s \in Sessions : ~ Held(s)
  /\ \A s \in Sessions :
       Exited(s) =>
         /\ sessions[s].outcome \in ExceptionSubclasses =>
              sessions[s].log = <<"rollback", "close", "exit">>
         /\ sessions[s].outcome = "normal" => sessions[s].log = <<"close", "exit">>
  /\ ( /\ report.raised = "none"
       /\ FailedIn(report.executed, {"select_1", "pg_extension", "vector_distance"}) )
     => \E s \in Sessions :
          /\ sessions[s].outcome \in ExceptionSubclasses
          /\ sessions[s].log = <<"rollback", "close", "exit">>

\* comprehensive_health_check has returned its report after the query of
\* the connectivity probe failed and the extension probe succeeded: both
\* sessions are released, the first one after a rollback.
C30_Witness ==
  /\ Composite
  /\ Len(sessions) = 2
  /\ sessions[1].outcome = "SQLAlchemyError"
  /\ sessions[1].log = <<"rollback", "close", "exit">>
  /\ sessions[2].outcome = "normal"
  /\ sessions[2].log = <<"close", "exit">>
  /\ Ran(report.executed, "select_1", "SQLAlchemyError")

(* ============ the readiness endpoint: C22, C23 ============ *)
Ready == answer.op = "readiness_check"

CanAcquire(e) ==
  database_engine # None \/ configure_from_env(e, None, <<>>).raised = "none"

\* The database is well: the manager can be acquired and the trivial query
\* completes in a scoped session.
DatabaseWell == CanAcquire(answer.env) /\ answer.store = "ok"

\* C23: check_database_health returns True whenever the manager can be
\* acquired and a trivial query completes in a scoped session, also when it
\* is called by the readiness handler, which runs inside the event loop, and
\* returns False (raising nothing) in every other case.
C23_DatabaseCheckTellsTheTruth ==
  /\ answer.op = "check_database_health" => (answer.db_healthy <=> DatabaseWell)
  /\ (Ready /\ answer.bound.database = "own") => (answer.db_healthy <=> DatabaseWell)

====
